---- MODULE Spec2Model ----
(***************************************************************************)
(* CampusSpot booking coordination engine: bookingService, policyService,  *)
(* cleanupService and the transactional store they run against             *)
(* (PostgreSQL, READ COMMITTED: every statement reads the committed rows,  *)
(* SELECT ... FOR UPDATE takes a row lock held until COMMIT / ROLLBACK).   *)
(* Instants are minutes since local midnight of day 0.                     *)
(***************************************************************************)
EXTENDS Integers, Sequences, FiniteSets, TLC

VARIABLES now, bookings, procs, facLock, unitLock, rowLock, recon, advLock

vars == <<now, bookings, procs, facLock, unitLock, rowLock, recon, advLock>>

(***************************************************************************)
(* Bounds of the model                                                     *)
(***************************************************************************)
MaxBookings == 1      \* rows the bookings table may come to hold
MaxCreateRows == 2    \* the same, in the specifications of create requests alone
MaxClockSlots == 1    \* the clock runs over this many 30-minute slots
MaxFailures == 1      \* store errors injected into reconciler cycles
PoolCapacity == 1     \* total_capacity of the pooled facility of the model
TableCapacity == 2    \* total_capacity of the pooled tables of the model
MaxPoolRows == 3      \* rows of bookings in the specification of the tables

(***************************************************************************)
(* Program constants                                                       *)
(***************************************************************************)
SLOT_SIZE_MINUTES == 30
NO_SHOW_GRACE_MINUTES == 15
MAX_BOOKING_HORIZON_DAYS == 7
FULL_DAY_MINUTES == 480
DAY_MINUTES == 1440
MILLIS_PER_MINUTE == 60000

SCHEDULED == "scheduled"
CHECKED_IN == "checked_in"
COMPLETED == "completed"
RELEASED == "released"
ActiveStatuses == {SCHEDULED, CHECKED_IN}

VALID_CLUBS == {"Roobooru", "E-Cell", "Vision", "Tooryanad"}

NULL == 0             \* SQL NULL / JS undefined for ids
NoClub == "none"      \* SQL NULL for club_name

(***************************************************************************)
(* The facilities and facility_units tables (seedDemoData, scaled: the     *)
(* pooled library holds PoolCapacity, the pooled tables TableCapacity).    *)
(***************************************************************************)
Facilities == {1, 2, 3, 4, 5}

FacilityRow(f) ==
  CASE f = 1 -> [id |-> 1, category |-> "Study Space", total_capacity |-> PoolCapacity,
                 is_pooled |-> TRUE, min_duration_minutes |-> 30,
                 max_duration_minutes |-> 480, open_time |-> 0, close_time |-> 1439]
    [] f = 2 -> [id |-> 2, category |-> "Sports", total_capacity |-> 3,
                 is_pooled |-> FALSE, min_duration_minutes |-> 30,
                 max_duration_minutes |-> 120, open_time |-> 420, close_time |-> 1439]
    [] f = 3 -> [id |-> 3, category |-> "Sports", total_capacity |-> TableCapacity,
                 is_pooled |-> TRUE, min_duration_minutes |-> 30,
                 max_duration_minutes |-> 60, open_time |-> 480, close_time |-> 1320]
    [] f = 4 -> [id |-> 4, category |-> "Sports", total_capacity |-> 2,
                 is_pooled |-> FALSE, min_duration_minutes |-> 60,
                 max_duration_minutes |-> 180, open_time |-> 360, close_time |-> 1140]
    [] OTHER -> [id |-> 5, category |-> "Event Space", total_capacity |-> 1,
                 is_pooled |-> FALSE, min_duration_minutes |-> 30,
                 max_duration_minutes |-> 780, open_time |-> 480, close_time |-> 1260]

\* courts 10, 11 and 12, the cricket ground 40 and the auditorium hall 50;
\* court 12 has been taken out of service (is_operational = false in its
\* facility_units row)
Units == {10, 11, 12, 40, 50}

UnitFacility(u) == IF u = 50 THEN 5 ELSE IF u = 40 THEN 4 ELSE 2

UnitIsOperational(u) == u # 12

\* getAllAssets: WHERE (f.category != 'Event Space' OR $4 = 'club')
getAllAssets(userType) ==
  {f \in Facilities : FacilityRow(f).category # "Event Space" \/ userType = "club"}

\* SELECT ... FROM facility_units WHERE facility_id = $1 AND is_operational
getFacilityUnits(facilityId) ==
  {u \in Units : UnitFacility(u) = facilityId /\ UnitIsOperational(u)}

(***************************************************************************)
(* policyService                                                           *)
(***************************************************************************)
\* no snapping: the instant as the request gave it
snapToSlot_Identity(t) == t

\* Math.round(minutes / 30) * 30 written on the minutes of the hour
snapToSlot(t) ==
  LET minutes == t % 60
      snappedMinutes == ((2 * minutes + SLOT_SIZE_MINUTES) \div (2 * SLOT_SIZE_MINUTES)) * SLOT_SIZE_MINUTES
  IN  (t - minutes) + snappedMinutes

\* Math.ceil(minutes / 30) * 30: the boundary at or after t
snapToNextBoundary_Ceil(t) ==
  LET minutes == t % 60
      k == (minutes + (SLOT_SIZE_MINUTES - 1)) \div SLOT_SIZE_MINUTES
  IN  (t - minutes) + k * SLOT_SIZE_MINUTES

\* Math.ceil((minutes + 1) / 30) * 30
snapToNextBoundary(t) ==
  LET minutes == t % 60
      k == ((minutes + 1) + (SLOT_SIZE_MINUTES - 1)) \div SLOT_SIZE_MINUTES
  IN  (t - minutes) + k * SLOT_SIZE_MINUTES

generateIdempotencyKey(userName, startsAt) ==
  <<userName, startsAt * MILLIS_PER_MINUTE>>

timeOfDay(t) == t % DAY_MINUTES

startOfDayOf(t) == t - (t % DAY_MINUTES)

\* setHours(23, 59, 59, 999): the last instant of the day; on whole minutes
\* "x < endOfDay" reads x <= startOfDay + 1439
endOfDayOf(t) == startOfDayOf(t) + (DAY_MINUTES - 1)

\* a club check that every caller passes
isClub_Anyone(userType) == TRUE

\* userType === USER_TYPES.CLUB, as the full-day rules test it
isClub(userType) == userType = "club"

\* a validation without the past and horizon tests
validateBookingRequest_AnyStart(facility, startsAt, endsAt, userType, clock) ==
  [ok |-> TRUE, status |-> 200, msg |-> "ok",
   bookingType |-> IF endsAt - startsAt >= FULL_DAY_MINUTES THEN "full_day" ELSE "time_based"]

\* validateBookingRequest: [ok, status, msg, bookingType]
validateBookingRequest(facility, startsAt, endsAt, userType, clock) ==
  LET horizonDays == IF userType = "club" THEN NULL ELSE MAX_BOOKING_HORIZON_DAYS
      horizonLimit == clock + (IF horizonDays = NULL THEN 7 ELSE horizonDays) * DAY_MINUTES
      durationMinutes == endsAt - startsAt
      isFullDay == durationMinutes >= FULL_DAY_MINUTES
      startMins == timeOfDay(startsAt)
      endMins == timeOfDay(endsAt)
      fail(s, m) == [ok |-> FALSE, status |-> s, msg |-> m, bookingType |-> "none"]
  IN  IF startsAt < clock THEN fail(400, "past")
      ELSE IF startsAt > horizonLimit THEN fail(403, "horizon")
      ELSE IF endsAt <= startsAt THEN fail(400, "endBeforeStart")
      ELSE IF ~isFullDay /\ (startMins < facility.open_time \/ endMins > facility.close_time)
           THEN fail(400, "closed")
      ELSE IF isFullDay
           THEN IF ~isClub(userType) THEN fail(403, "fullDayClubOnly")
                ELSE [ok |-> TRUE, status |-> 200, msg |-> "ok", bookingType |-> "full_day"]
      ELSE IF durationMinutes < facility.min_duration_minutes THEN fail(400, "tooShort")
      ELSE IF durationMinutes > facility.max_duration_minutes THEN fail(400, "tooLong")
      ELSE [ok |-> TRUE, status |-> 200, msg |-> "ok", bookingType |-> "time_based"]

(***************************************************************************)
(* The store: bookings holds the committed rows (id = position); a         *)
(* transaction keeps its uncommitted write in procs[p].pending and applies *)
(* it at COMMIT.  Lock holders are transaction ids: a request slot p, or   *)
(* WorkerTx(r) for a reconciler worker r; NoTx when the row is unlocked.   *)
(***************************************************************************)
Procs == {1, 2}
Workers == {1, 2}    \* reconciler cycles that may run at once (instances, overlapping ticks)
OneCycle == {1}      \* where cycles never overlap, every cycle runs as worker 1
Conns == {1, 2}
NoTx == 0
MaxRows == MaxCreateRows + MaxBookings
WorkerTx(r) == 100 + r

IsActive(b) == b.status \in ActiveStatuses

\* an overlap test that only sees a booking starting at the same instant
Overlaps_SameStart(b, s, e) == b.starts_at = s

\* starts_at < $end AND ends_at > $start
Overlaps(b, s, e) == b.starts_at < e /\ b.ends_at > s

\* a day test that only sees a booking whose window holds the instant t
IntersectsDayOf_Window(b, t) == b.starts_at <= t /\ b.ends_at > t

\* starts_at < endOfDay AND ends_at > startOfDay, for the civil day of t
IntersectsDayOf(b, t) == b.starts_at <= endOfDayOf(t) /\ b.ends_at > startOfDayOf(t)

\* SQL equality: NULL equals nothing
SqlEq(a, b) == a # NULL /\ b # NULL /\ a = b

BookingIds == 1..Len(bookings)

NoPending == <<>>

\* a join condition that leaves out a booking at its start instant
OccupiesAt_AfterStart(b, t) == b.starts_at < t /\ b.ends_at > t

\* getAllAssets: b.status IN ($2, $3) AND b.starts_at <= NOW() AND b.ends_at > NOW()
OccupiesAt(b, t) == b.starts_at <= t /\ b.ends_at > t

\* getAllAssets: the usage subquery. LEFT JOIN bookings, GROUP BY facility,
\* COUNT(b.id) if pooled, else COUNT(DISTINCT b.unit_id) (NULLs not counted)
current_usage(f, t) ==
  LET joined == {i \in BookingIds : /\ bookings[i].facility_id = f
                                    /\ IsActive(bookings[i])
                                    /\ OccupiesAt(bookings[i], t)}
  IN  IF FacilityRow(f).is_pooled
      THEN Cardinality(joined)
      ELSE Cardinality({bookings[i].unit_id : i \in joined} \ {NULL})

\* Math.max(0, parseInt(row.available_capacity)) on total_capacity - usage
available_capacity(f, t) ==
  LET raw == FacilityRow(f).total_capacity - current_usage(f, t)
  IN  IF raw > 0 THEN raw ELSE 0
NoDetails == <<>>
Res(s, m) == [status |-> s, msg |-> m, details |-> NoDetails]
NoRes == Res(0, "none")

IdleProc ==
  [op |-> "idle", pc |-> "idle", facilityId |-> NULL, unitId |-> NULL,
   userName |-> "none", userType |-> "individual", clubName |-> NoClub,
   startsAt |-> 0, endsAt |-> 0, bookingId |-> NULL, bookingType |-> "none",
   pending |-> NoPending, fired |-> FALSE, res |-> NoRes]

Free(p) == procs[p].pc \in {"idle", "done"}

\* a controller that broadcasts whatever the outcome
Done_AlwaysFired(r, res, fired) ==
  [r EXCEPT !.pc = "done", !.pending = NoPending, !.bookingType = "none",
            !.fired = TRUE, !.res = res]

\* a request whose response is sent: the request body, the response and
\* whether the controller broadcast assets:updated
Done(r, res, fired) ==
  [r EXCEPT !.pc = "done", !.pending = NoPending, !.bookingType = "none",
            !.fired = fired, !.res = res]

\* a SELECT without FOR UPDATE: it never waits
Granted_NoRowLock(lk, x, tx) == TRUE

\* SELECT ... FOR UPDATE on row x returns once no other transaction holds it
Granted(lk, x, tx) == lk[x] \in {NoTx, tx}

ReleaseLocks(lk, tx) == [x \in DOMAIN lk |-> IF lk[x] = tx THEN NoTx ELSE lk[x]]

\* a failure path that answers without ROLLBACK: the locks stay held
Rollback_KeepLocks(p, res) ==
  /\ procs' = [procs EXCEPT ![p] = Done(procs[p], res, FALSE)]
  /\ UNCHANGED <<now, bookings, facLock, unitLock, rowLock, recon, advLock>>

\* runInTransaction's catch: ROLLBACK drops the pending write and every lock;
\* the controller maps the thrown object to a response and does not broadcast
Rollback(p, res) ==
  /\ procs' = [procs EXCEPT ![p] = Done(procs[p], res, FALSE)]
  /\ facLock' = ReleaseLocks(facLock, p)
  /\ unitLock' = ReleaseLocks(unitLock, p)
  /\ rowLock' = ReleaseLocks(rowLock, p)
  /\ UNCHANGED <<now, bookings, recon, advLock>>

\* a request slot moves to its next statement
Goto(p, next) == procs' = [procs EXCEPT ![p].pc = next]

InFlightCreates == {q \in Procs : procs[q].op = "create" /\ ~Free(q)}

\* the other transactions with an uncommitted insert carrying the key
InsertersOfKey(p, key) ==
  {q \in Procs \ {p} : /\ procs[q].pending # NoPending
                       /\ procs[q].pending[1] = "insert"
                       /\ procs[q].pending[2].idempotency_key = key}

PendingInsertWithKey(p, key) == InsertersOfKey(p, key) # {}

\* the other transactions whose inserted row has passed its foreign-key
\* check and so holds FOR KEY SHARE on unit u
KeyShareHolders(tx, u) ==
  {q \in Procs \ {tx} : /\ procs[q].pc = "commit"
                        /\ procs[q].pending # NoPending
                        /\ procs[q].pending[1] = "insert"
                        /\ procs[q].pending[2].unit_id = u}

PendingInsertOnUnit(tx, u) == KeyShareHolders(tx, u) # {}

(***************************************************************************)
(* bookingService.createBooking                                            *)
(***************************************************************************)
\* POST /reserve: the controller passes the body on, createBooking snaps both
\* endpoints and derives the key before the transaction begins
StartCreate(p, c, q, cap) ==
  /\ Free(p)
  /\ Len(bookings) + Cardinality(InFlightCreates) < cap
  /\ procs' = [procs EXCEPT ![p] =
       [IdleProc EXCEPT !.op = "create", !.pc = "lockFacility",
          !.facilityId = q.facilityId, !.unitId = q.unitId,
          !.userName = c.userName, !.userType = c.userType, !.clubName = c.clubName,
          !.startsAt = snapToSlot(q.startsAt), !.endsAt = snapToSlot(q.endsAt)]]
  /\ UNCHANGED <<now, bookings, facLock, unitLock, rowLock, recon, advLock>>

\* SELECT * FROM facilities WHERE id = $1 FOR UPDATE (waits for the row lock),
\* then validateBookingRequest, the full-day queries and the club check
CreateLockFacility(p) ==
  /\ procs[p].op = "create" /\ procs[p].pc = "lockFacility"
  /\ IF procs[p].facilityId \notin Facilities
     THEN Rollback(p, Res(404, "facilityNotFound"))
     ELSE
     LET r == procs[p]
         facility == FacilityRow(r.facilityId)
         v == validateBookingRequest(facility, r.startsAt, r.endsAt, r.userType, now)
         fullDayConflict ==
           {i \in BookingIds : /\ bookings[i].facility_id = r.facilityId
                               /\ bookings[i].booking_type = "full_day"
                               /\ IsActive(bookings[i])
                               /\ IntersectsDayOf(bookings[i], r.startsAt)}
         existingDayBookings ==
           {i \in BookingIds : /\ IF facility.is_pooled
                                    THEN bookings[i].facility_id = r.facilityId
                                    ELSE SqlEq(bookings[i].unit_id, r.unitId)
                               /\ IsActive(bookings[i])
                               /\ IntersectsDayOf(bookings[i], r.startsAt)}
     IN  /\ Granted(facLock, r.facilityId, p)
         /\ IF ~v.ok THEN Rollback(p, Res(v.status, v.msg))
            ELSE IF v.bookingType # "full_day" /\ fullDayConflict # {}
                 THEN Rollback(p, Res(409, "facilityReservedAllDay"))
            ELSE IF v.bookingType = "full_day" /\ ~isClub(r.userType)
                 THEN Rollback(p, Res(403, "fullDayClubOnly"))
            ELSE IF v.bookingType = "full_day" /\ existingDayBookings # {}
                 THEN \E i \in existingDayBookings :
                        Rollback(p, Res(409, IF bookings[i].booking_type = "full_day"
                                             THEN "dayReservedByClub"
                                             ELSE "dayHasBookings"))
            ELSE IF r.userType = "club" /\ (r.clubName = NoClub \/ r.clubName \notin VALID_CLUBS)
                 THEN Rollback(p, Res(400, "invalidClub"))
            ELSE /\ facLock' = [facLock EXCEPT ![r.facilityId] = p]
                 /\ procs' = [procs EXCEPT ![p].pc = "userOverlap",
                                           ![p].bookingType = v.bookingType]
                 /\ UNCHANGED <<now, bookings, unitLock, rowLock, recon, advLock>>

\* the caller's own active bookings over the snapped window
CreateUserOverlap(p) ==
  /\ procs[p].op = "create" /\ procs[p].pc = "userOverlap"
  /\ LET r == procs[p]
         userOverlap == {i \in BookingIds : /\ bookings[i].booked_by = r.userName
                                            /\ IsActive(bookings[i])
                                            /\ Overlaps(bookings[i], r.startsAt, r.endsAt)}
     IN  IF userOverlap # {}
         THEN Rollback(p, Res(409, "selfOverlap"))
         ELSE /\ Goto(p, "capacity")
              /\ UNCHANGED <<now, bookings, facLock, unitLock, rowLock, recon, advLock>>

\* conflictDetails: {bookedBy, clubName, userType, starts_at, ends_at} of the
\* booking in the way
conflictDetails(conflict) ==
  <<conflict.booked_by, conflict.club_name, conflict.user_type,
    conflict.starts_at, conflict.ends_at>>

\* pooled: COUNT(*) against total_capacity; unit-based: unit id required,
\* SELECT id FROM facility_units WHERE id = $1 AND facility_id = $2 FOR UPDATE
\* (waits for the row lock), then the unit's active bookings over the window
CreateCapacity(p) ==
  /\ procs[p].op = "create" /\ procs[p].pc = "capacity"
  /\ LET r == procs[p]
         facility == FacilityRow(r.facilityId)
         activeCount == Cardinality({i \in BookingIds :
                           /\ bookings[i].facility_id = r.facilityId
                           /\ IsActive(bookings[i])
                           /\ Overlaps(bookings[i], r.startsAt, r.endsAt)})
         overlap == {i \in BookingIds : /\ SqlEq(bookings[i].unit_id, r.unitId)
                                        /\ IsActive(bookings[i])
                                        /\ Overlaps(bookings[i], r.startsAt, r.endsAt)}
         isAuditorium == facility.category = "Event Space"
     IN  IF facility.is_pooled
         THEN IF activeCount >= facility.total_capacity
              THEN Rollback(p, Res(409, "noSpace"))
              ELSE /\ Goto(p, "insert")
                   /\ UNCHANGED <<now, bookings, facLock, unitLock, rowLock, recon, advLock>>
         ELSE IF r.unitId = NULL
              THEN Rollback(p, Res(400, "unitRequired"))
         ELSE IF r.unitId \notin Units \/ UnitFacility(r.unitId) # r.facilityId
              THEN Rollback(p, Res(400, "unitMismatch"))
         ELSE /\ Granted(unitLock, r.unitId, p)
              /\ ~PendingInsertOnUnit(p, r.unitId)
              /\ IF overlap # {}
                 THEN \E i \in overlap :
                        Rollback(p, [status |-> 409,
                                     msg |-> IF isAuditorium /\ bookings[i].user_type = "club"
                                             THEN "auditoriumBooked" ELSE "unitBooked",
                                     details |-> conflictDetails(bookings[i])])
                 ELSE /\ unitLock' = [unitLock EXCEPT ![r.unitId] = p]
                      /\ Goto(p, "insert")
                      /\ UNCHANGED <<now, bookings, facLock, rowLock, recon, advLock>>

\* the other transactions with an uncommitted UPDATE on committed row i
PendingUpdaters(i, tx) ==
  {q \in Procs \ {tx} : /\ procs[q].pending # NoPending
                        /\ procs[q].pending[1] = "update"
                        /\ procs[q].pending[2] = i}
  \cup {WorkerTx(r) : r \in {w \in Workers : /\ WorkerTx(w) # tx
                                             /\ recon[w].pc \in {"nsCommit", "cfCommit"}
                                             /\ recon[w].cur = i}}

PendingUpdateOn(i, tx) == PendingUpdaters(i, tx) # {}

\* a table without the unique index: no row stands in the way of an insert
ActiveWithKey_NoIndex(key) == {}

\* unique_active_idempotency: committed active rows carrying the key
ActiveWithKey(key) ==
  {i \in BookingIds : IsActive(bookings[i]) /\ bookings[i].idempotency_key = key}

\* the insert has to wait for a transaction whose uncommitted write decides
\* whether the key is taken
InsertWaits(p, key) ==
  \/ PendingInsertWithKey(p, key)
  \/ \E i \in ActiveWithKey(key) : PendingUpdateOn(i, p)

NewRow(r) ==
  [facility_id |-> r.facilityId,
   unit_id |-> r.unitId,
   booked_by |-> r.userName, user_type |-> r.userType,
   club_name |-> r.clubName,
   booking_type |-> r.bookingType,
   starts_at |-> r.startsAt, ends_at |-> r.endsAt,
   status |-> SCHEDULED,
   idempotency_key |-> generateIdempotencyKey(r.userName, r.startsAt)]

\* the unit row referenced by an inserted row is locked FOR UPDATE by
\* another transaction: the foreign-key check (FOR KEY SHARE) has to wait
ForeignKeyWaits(p, unit) == unit # NULL /\ unitLock[unit] \notin {NoTx, p}

\* INSERT INTO bookings ... RETURNING *, with the 23505 remap: the row goes
\* into the unique index first, the foreign-key checks run at the end of the
\* statement
CreateInsert(p) ==
  /\ procs[p].op = "create" /\ procs[p].pc = "insert"
  /\ LET row == NewRow(procs[p])
     IN  /\ ~InsertWaits(p, row.idempotency_key)
         /\ IF ActiveWithKey(row.idempotency_key) # {}
            THEN Rollback(p, Res(409, "duplicate"))
            ELSE IF row.unit_id # NULL /\ row.unit_id \notin Units
            THEN Rollback(p, Res(500, "storeError"))
            ELSE /\ procs' = [procs EXCEPT
                      ![p].pc = IF ForeignKeyWaits(p, row.unit_id)
                                THEN "foreignKey" ELSE "commit",
                      ![p].pending = <<"insert", row>>]
                 /\ UNCHANGED <<now, bookings, facLock, unitLock, rowLock, recon, advLock>>

\* the insert's foreign-key check on unit_id gets its FOR KEY SHARE lock
CreateForeignKey(p) ==
  /\ procs[p].op = "create" /\ procs[p].pc = "foreignKey"
  /\ ~ForeignKeyWaits(p, procs[p].pending[2].unit_id)
  /\ Goto(p, "commit")
  /\ UNCHANGED <<now, bookings, facLock, unitLock, rowLock, recon, advLock>>

\* COMMIT of the create, then the controller's broadcast and 201
CreateCommit(p) ==
  /\ procs[p].op = "create" /\ procs[p].pc = "commit"
  /\ bookings' = Append(bookings, procs[p].pending[2])
  /\ procs' = [procs EXCEPT ![p] =
       [Done(procs[p], Res(201, "created"), TRUE) EXCEPT !.bookingId = Len(bookings) + 1]]
  /\ facLock' = ReleaseLocks(facLock, p)
  /\ unitLock' = ReleaseLocks(unitLock, p)
  /\ rowLock' = ReleaseLocks(rowLock, p)
  /\ UNCHANGED <<now, recon, advLock>>

(***************************************************************************)
(* bookingService.cancelBooking / checkIn / checkOut                       *)
(***************************************************************************)
StartRequest(p, op, firstPc, bookingId, userName) ==
  /\ Free(p)
  /\ procs' = [procs EXCEPT ![p] =
       [IdleProc EXCEPT !.op = op, !.pc = firstPc,
                        !.bookingId = bookingId, !.userName = userName]]
  /\ UNCHANGED <<now, bookings, facLock, unitLock, rowLock, recon, advLock>>

\* UPDATE bookings SET status [, ends_at] WHERE id: held until COMMIT
StageUpdate(p, status, endsAt) ==
  /\ rowLock' = [rowLock EXCEPT ![procs[p].bookingId] = p]
  /\ procs' = [procs EXCEPT ![p].pc = "commit",
                            ![p].pending = <<"update", procs[p].bookingId, status, endsAt>>]
  /\ UNCHANGED <<now, bookings, facLock, unitLock, recon, advLock>>

\* an UPDATE without its WHERE id: the status lands on every row
CommitUpdate_AllRows(p) ==
  /\ procs[p].pc = "commit"
  /\ bookings' = [i \in BookingIds |->
                    [bookings[i] EXCEPT !.status = procs[p].pending[3]]]
  /\ procs' = [procs EXCEPT ![p] =
       Done(procs[p], Res(200, "ok"), TRUE)]
  /\ facLock' = ReleaseLocks(facLock, p)
  /\ unitLock' = ReleaseLocks(unitLock, p)
  /\ rowLock' = ReleaseLocks(rowLock, p)
  /\ UNCHANGED <<now, recon, advLock>>

\* COMMIT of a status change, then the controller's broadcast and 200
CommitUpdate(p) ==
  /\ procs[p].pc = "commit"
  /\ bookings' = [bookings EXCEPT ![procs[p].pending[2]].status = procs[p].pending[3],
                                  ![procs[p].pending[2]].ends_at = procs[p].pending[4]]
  /\ procs' = [procs EXCEPT ![p] =
       Done(procs[p], Res(200, "ok"), TRUE)]
  /\ facLock' = ReleaseLocks(facLock, p)
  /\ unitLock' = ReleaseLocks(unitLock, p)
  /\ rowLock' = ReleaseLocks(rowLock, p)
  /\ UNCHANGED <<now, recon, advLock>>

\* SELECT id FROM facilities WHERE id = $1 FOR UPDATE
LockFacilityOfBooking(p) ==
  /\ procs[p].pc = "lockFacility"
  /\ Granted(facLock, procs[p].facilityId, p)
  /\ facLock' = [facLock EXCEPT ![procs[p].facilityId] = p]
  /\ Goto(p, "lockBooking")
  /\ UNCHANGED <<now, bookings, unitLock, rowLock, recon, advLock>>

\* the first, unlocked read of the booking row
ReadBooking(p) ==
  /\ procs[p].pc = "read"
  /\ IF procs[p].bookingId \notin BookingIds
     THEN Rollback(p, Res(404, "bookingNotFound"))
     ELSE /\ procs' = [procs EXCEPT ![p].pc = "lockFacility",
                         ![p].facilityId = bookings[procs[p].bookingId].facility_id]
          /\ UNCHANGED <<now, bookings, facLock, unitLock, rowLock, recon, advLock>>

StartCancel(p, bookingId, userName) ==
  StartRequest(p, "cancel", "lockBooking", bookingId, userName)

\* a cancel that tests the status before the caller
CancelLockBooking_StatusFirst(p) ==
  /\ procs[p].op = "cancel" /\ procs[p].pc = "lockBooking"
  /\ LET id == procs[p].bookingId
     IN  IF id \notin BookingIds
         THEN Rollback(p, Res(404, "bookingNotFound"))
         ELSE /\ Granted(rowLock, id, p)
              /\ IF bookings[id].status # SCHEDULED
                 THEN Rollback(p, Res(400, "notScheduled"))
                 ELSE IF bookings[id].booked_by # procs[p].userName
                 THEN Rollback(p, Res(403, "unauthorized"))
                 ELSE StageUpdate(p, RELEASED, bookings[id].ends_at)

\* SELECT ... FOR UPDATE of the booking, the guards, the UPDATE to released
CancelLockBooking(p) ==
  /\ procs[p].op = "cancel" /\ procs[p].pc = "lockBooking"
  /\ LET id == procs[p].bookingId
     IN  IF id \notin BookingIds
         THEN Rollback(p, Res(404, "bookingNotFound"))
         ELSE /\ Granted(rowLock, id, p)
              /\ IF bookings[id].booked_by # procs[p].userName
                 THEN Rollback(p, Res(403, "unauthorized"))
                 ELSE IF bookings[id].status # SCHEDULED
                 THEN Rollback(p, Res(400, "notScheduled"))
                 ELSE StageUpdate(p, RELEASED, bookings[id].ends_at)

\* a cancel that deletes the row, and the rows after it, instead of
\* changing the status
CancelCommit_Delete(p) ==
  /\ procs[p].op = "cancel" /\ procs[p].pc = "commit"
  /\ bookings' = SubSeq(bookings, 1, procs[p].pending[2] - 1)
  /\ procs' = [procs EXCEPT ![p] = Done(procs[p], Res(200, "ok"), TRUE)]
  /\ facLock' = ReleaseLocks(facLock, p)
  /\ unitLock' = ReleaseLocks(unitLock, p)
  /\ rowLock' = ReleaseLocks(rowLock, p)
  /\ UNCHANGED <<now, recon, advLock>>

CancelCommit(p) == procs[p].op = "cancel" /\ CommitUpdate(p)

\* currentTime > checkInDeadline with the deadline itself shut out
WindowExpired_Exclusive(currentTime, checkInDeadline) == currentTime >= checkInDeadline

\* if (currentTime > checkInDeadline) throw 403
WindowExpired(currentTime, checkInDeadline) == currentTime > checkInDeadline

\* a check-in that is never too early
TooEarly_Never(currentTime, startTime) == FALSE

\* if (currentTime < startTime) throw 403
TooEarly(currentTime, startTime) == currentTime < startTime

StartCheckIn(p, bookingId, userName) ==
  StartRequest(p, "checkIn", "read", bookingId, userName)

CheckInRead(p) == procs[p].op = "checkIn" /\ ReadBooking(p)

CheckInLockFacility(p) == procs[p].op = "checkIn" /\ LockFacilityOfBooking(p)

\* SELECT * FROM bookings WHERE id = $1 FOR UPDATE, the identity, status and
\* time guards on new Date(), the UPDATE to checked_in
CheckInLockBooking(p) ==
  /\ procs[p].op = "checkIn" /\ procs[p].pc = "lockBooking"
  /\ LET id == procs[p].bookingId
         currentTime == now
         startTime == bookings[id].starts_at
         checkInDeadline == startTime + NO_SHOW_GRACE_MINUTES
     IN  /\ Granted(rowLock, id, p)
         /\ IF bookings[id].booked_by # procs[p].userName
            THEN Rollback(p, Res(403, "identityMismatch"))
            ELSE IF bookings[id].status # SCHEDULED
            THEN Rollback(p, Res(400, "checkInInvalid"))
            ELSE IF TooEarly(currentTime, startTime)
            THEN Rollback(p, Res(403, "tooEarly"))
            ELSE IF WindowExpired(currentTime, checkInDeadline)
            THEN Rollback(p, Res(403, "windowExpired"))
            ELSE StageUpdate(p, CHECKED_IN, bookings[id].ends_at)

CheckInCommit(p) == procs[p].op = "checkIn" /\ CommitUpdate(p)

StartCheckOut(p, bookingId, userName) ==
  StartRequest(p, "checkOut", "read", bookingId, userName)

CheckOutRead(p) == procs[p].op = "checkOut" /\ ReadBooking(p)

CheckOutLockFacility(p) == procs[p].op = "checkOut" /\ LockFacilityOfBooking(p)

\* the locked read, the guards, the UPDATE to completed with the aligned end
CheckOutLockBooking(p) ==
  /\ procs[p].op = "checkOut" /\ procs[p].pc = "lockBooking"
  /\ LET id == procs[p].bookingId
         alignedEndTime == snapToNextBoundary(now)
     IN  /\ Granted(rowLock, id, p)
         /\ IF bookings[id].booked_by # procs[p].userName
            THEN Rollback(p, Res(403, "identityMismatch"))
            ELSE IF bookings[id].status # CHECKED_IN
            THEN Rollback(p, Res(400, "checkOutInvalid"))
            ELSE StageUpdate(p, COMPLETED, alignedEndTime)

CheckOutCommit(p) == procs[p].op = "checkOut" /\ CommitUpdate(p)

(***************************************************************************)
(* cleanupService.runCleanupCycle.  advLock is the session-level advisory  *)
(* lock 1001: the pool connection (session) holding it and how many times  *)
(* that session has acquired it.                                           *)
(***************************************************************************)
NoConn == 0

IdleRecon ==
  [pc |-> "idle", conn |-> NoConn, queue |-> {}, cur |-> NULL,
   releasedCount |-> 0, completedCount |-> 0, last |-> "none", failures |-> 0]

ConnInUse(c) == \E r \in Workers : recon[r].pc # "idle" /\ recon[r].conn = c

\* the for-loop over the selected rows: take the next record and BEGIN, or
\* leave the loop (rows come back in no particular order)
NextRecord(r, base, queue, loopPc, exitPc) ==
  IF queue = {}
  THEN recon' = [recon EXCEPT ![r] = [base EXCEPT !.queue = {}, !.cur = NULL, !.pc = exitPc]]
  ELSE \E i \in queue :
         recon' = [recon EXCEPT ![r] = [base EXCEPT !.queue = queue \ {i}, !.cur = i, !.pc = loopPc]]

\* the cron tick: pool.connect() hands the cycle an idle connection
ReconStart(r, c) ==
  /\ recon[r].pc = "idle"
  /\ ~ConnInUse(c)
  /\ recon' = [recon EXCEPT ![r] =
       [IdleRecon EXCEPT !.pc = "tryLock", !.conn = c, !.last = "running",
                         !.failures = recon[r].failures]]
  /\ UNCHANGED <<now, bookings, procs, facLock, unitLock, rowLock, advLock>>

\* an advisory lock that any session gets at any time
LockAvailable_Always(lock, c) == TRUE

\* pg_try_advisory_lock grants the lock to a session when no other session
\* holds it
LockAvailable(lock, c) == lock.holder \in {NoConn, c}

\* SELECT pg_try_advisory_lock(1001): false when another session holds the
\* lock (return, and the finally block releases the connection); a session
\* that holds it already acquires it once more
ReconTryLock(r) ==
  /\ recon[r].pc = "tryLock"
  /\ IF ~LockAvailable(advLock, recon[r].conn)
     THEN /\ recon' = [recon EXCEPT ![r] =
               [IdleRecon EXCEPT !.last = "skipped", !.failures = recon[r].failures]]
          /\ UNCHANGED advLock
     ELSE /\ advLock' = [holder |-> recon[r].conn, count |-> advLock.count + 1]
          /\ recon' = [recon EXCEPT ![r].pc = "nsSelect"]
  /\ UNCHANGED <<now, bookings, procs, facLock, unitLock, rowLock>>

\* a candidate select without the grace period
ReconNoShowSelect_NoGrace(r) ==
  /\ recon[r].pc = "nsSelect"
  /\ LET staleReservations ==
           {i \in BookingIds : /\ bookings[i].status = SCHEDULED
                               /\ bookings[i].starts_at < now}
     IN  NextRecord(r, recon[r], staleReservations, "nsLockFacility", "cfSelect")
  /\ UNCHANGED <<now, bookings, procs, facLock, unitLock, rowLock, advLock>>

\* processNoShows: the candidate select
ReconNoShowSelect(r) ==
  /\ recon[r].pc = "nsSelect"
  /\ LET staleReservations ==
           {i \in BookingIds : /\ bookings[i].status = SCHEDULED
                               /\ bookings[i].starts_at < now - NO_SHOW_GRACE_MINUTES}
     IN  NextRecord(r, recon[r], staleReservations, "nsLockFacility", "cfSelect")
  /\ UNCHANGED <<now, bookings, procs, facLock, unitLock, rowLock, advLock>>

\* completeFinishedBookings: the candidate select
ReconCompleteSelect(r) ==
  /\ recon[r].pc = "cfSelect"
  /\ LET activeSessions ==
           {i \in BookingIds : /\ bookings[i].status = CHECKED_IN
                               /\ bookings[i].ends_at <= now}
     IN  NextRecord(r, recon[r], activeSessions, "cfLockFacility", "justStarted")
  /\ UNCHANGED <<now, bookings, procs, facLock, unitLock, rowLock, advLock>>

\* SELECT id FROM facilities WHERE id = $1 FOR UPDATE (either loop)
ReconLockFacility(r) ==
  /\ recon[r].pc \in {"nsLockFacility", "cfLockFacility"}
  /\ LET f == bookings[recon[r].cur].facility_id
     IN  /\ Granted(facLock, f, WorkerTx(r))
         /\ facLock' = [facLock EXCEPT ![f] = WorkerTx(r)]
  /\ recon' = [recon EXCEPT ![r].pc = IF recon[r].pc = "nsLockFacility"
                                      THEN "nsLockBooking" ELSE "cfLockBooking"]
  /\ UNCHANGED <<now, bookings, procs, unitLock, rowLock, advLock>>

\* the locked read without its status condition
StatusStill_Unchecked(id, expected) == TRUE

\* WHERE id = $1 AND status = $2: the row still has the status the candidate
\* select saw
StatusStill(id, expected) == bookings[id].status = expected

\* SELECT id FROM bookings WHERE id = $1 AND status = $2 FOR UPDATE, then
\* either "return false" (COMMIT, next record) or the UPDATE
ReconLockBooking(r) ==
  /\ recon[r].pc \in {"nsLockBooking", "cfLockBooking"}
  /\ LET ns == recon[r].pc = "nsLockBooking"
         expected == IF ns THEN SCHEDULED ELSE CHECKED_IN
         id == recon[r].cur
     IN  IF ~StatusStill(id, expected)
         THEN /\ NextRecord(r, recon[r], recon[r].queue,
                            IF ns THEN "nsLockFacility" ELSE "cfLockFacility",
                            IF ns THEN "cfSelect" ELSE "justStarted")
              /\ facLock' = ReleaseLocks(facLock, WorkerTx(r))
              /\ UNCHANGED rowLock
         ELSE /\ Granted(rowLock, id, WorkerTx(r))
              /\ rowLock' = [rowLock EXCEPT ![id] = WorkerTx(r)]
              /\ recon' = [recon EXCEPT ![r].pc = IF ns THEN "nsCommit" ELSE "cfCommit"]
              /\ UNCHANGED facLock
  /\ UNCHANGED <<now, bookings, procs, unitLock, advLock>>

\* COMMIT of one record's transaction: the status is written, processedCount++
ReconCommit(r) ==
  /\ recon[r].pc \in {"nsCommit", "cfCommit"}
  /\ LET ns == recon[r].pc = "nsCommit"
         counted == IF ns
                    THEN [recon[r] EXCEPT !.releasedCount = @ + 1]
                    ELSE [recon[r] EXCEPT !.completedCount = @ + 1]
     IN  /\ bookings' = [bookings EXCEPT ![recon[r].cur].status =
                           IF ns THEN RELEASED ELSE COMPLETED]
         /\ NextRecord(r, counted, recon[r].queue,
                       IF ns THEN "nsLockFacility" ELSE "cfLockFacility",
                       IF ns THEN "cfSelect" ELSE "justStarted")
  /\ facLock' = ReleaseLocks(facLock, WorkerTx(r))
  /\ rowLock' = ReleaseLocks(rowLock, WorkerTx(r))
  /\ UNCHANGED <<now, procs, unitLock, advLock>>

\* pg_advisory_unlock: one acquisition of the session is given back
AdvisoryUnlock(lock, c) ==
  IF lock.holder # c THEN lock
  ELSE IF lock.count > 1 THEN [lock EXCEPT !.count = @ - 1]
  ELSE [holder |-> NoConn, count |-> 0]

\* the just-started query, pg_advisory_unlock, the broadcast, and the
\* finally block's connection.release()
ReconFinish(r) ==
  /\ recon[r].pc = "justStarted"
  /\ LET justStarted == \E i \in BookingIds :
                          /\ bookings[i].status = SCHEDULED
                          /\ bookings[i].starts_at <= now
                          /\ bookings[i].starts_at > now - 1
         stateChanged == recon[r].releasedCount > 0 \/ recon[r].completedCount > 0
                         \/ justStarted
     IN  recon' = [recon EXCEPT ![r] =
           [IdleRecon EXCEPT !.last = IF stateChanged THEN "broadcast" ELSE "quiet",
                             !.failures = recon[r].failures]]
  /\ advLock' = AdvisoryUnlock(advLock, recon[r].conn)
  /\ UNCHANGED <<now, bookings, procs, facLock, unitLock, rowLock>>

\* a statement of the cycle throws (store error): the record's transaction is
\* rolled back, the catch block logs, the finally block releases the
\* connection to the pool
ReconFail(r) ==
  /\ recon[r].pc # "idle"
  /\ recon[r].failures < MaxFailures
  /\ recon' = [recon EXCEPT ![r] =
       [IdleRecon EXCEPT !.last = "failed", !.failures = recon[r].failures + 1]]
  /\ facLock' = ReleaseLocks(facLock, WorkerTx(r))
  /\ rowLock' = ReleaseLocks(rowLock, WorkerTx(r))
  /\ UNCHANGED <<now, bookings, procs, unitLock, advLock>>

\* the pool closes a connection that stayed idle (idleTimeoutMillis): its
\* session ends and the store drops the session's advisory locks
ConnIdleTimeout(c) ==
  /\ ~ConnInUse(c)
  /\ advLock.holder = c
  /\ advLock' = [holder |-> NoConn, count |-> 0]
  /\ UNCHANGED <<now, bookings, procs, facLock, unitLock, rowLock, recon>>

(***************************************************************************)
(* assetService.seedDemoData behind POST /api/system/seed: DELETE FROM     *)
(* bookings, then the catalogue is deleted and inserted again with the     *)
(* same rows.  The reset is issued while no request and no reconciler      *)
(* cycle is in flight; rows inserted afterwards are numbered from the      *)
(* start of the table again.                                               *)
(***************************************************************************)
seedDemoData ==
  /\ \A p \in Procs : Free(p)
  /\ \A r \in Workers : recon[r].pc = "idle"
  /\ bookings' = <<>>
  /\ UNCHANGED <<now, procs, facLock, unitLock, rowLock, recon, advLock>>

(***************************************************************************)
(* Lock waits.  WaitsFor(tx) is the set of transactions holding what tx's  *)
(* current statement is waiting for.                                       *)
(***************************************************************************)
Txns == Procs \cup {WorkerTx(r) : r \in Workers}

Holder(lk, x, tx) == {lk[x]} \ {NoTx, tx}

ProcWaitsFor(p) ==
  LET r == procs[p]
      key == generateIdempotencyKey(r.userName, r.startsAt)
      indexHolders ==
        InsertersOfKey(p, key) \cup UNION {PendingUpdaters(i, p) : i \in ActiveWithKey(key)}
  IN  CASE r.op = "create" /\ r.pc = "lockFacility" /\ r.facilityId \in Facilities
             -> Holder(facLock, r.facilityId, p)
        [] r.op = "create" /\ r.pc = "capacity" /\ ~FacilityRow(r.facilityId).is_pooled
           /\ r.unitId \in Units /\ UnitFacility(r.unitId) = r.facilityId
             -> Holder(unitLock, r.unitId, p) \cup KeyShareHolders(p, r.unitId)
        [] r.op = "create" /\ r.pc = "insert" -> indexHolders
        [] r.op = "create" /\ r.pc = "foreignKey"
             -> Holder(unitLock, r.pending[2].unit_id, p)
        [] r.op = "cancel" /\ r.pc = "lockBooking" /\ r.bookingId \in BookingIds
             -> Holder(rowLock, r.bookingId, p)
        [] r.op \in {"checkIn", "checkOut"} /\ r.pc = "lockFacility"
             -> Holder(facLock, r.facilityId, p)
        [] r.op \in {"checkIn", "checkOut"} /\ r.pc = "lockBooking"
             -> Holder(rowLock, r.bookingId, p)
        [] OTHER -> {}

WorkerWaitsFor(r) ==
  LET w == recon[r]
  IN  CASE w.pc \in {"nsLockFacility", "cfLockFacility"}
             -> Holder(facLock, bookings[w.cur].facility_id, WorkerTx(r))
        [] w.pc = "nsLockBooking" /\ StatusStill(w.cur, SCHEDULED)
             -> Holder(rowLock, w.cur, WorkerTx(r))
        [] w.pc = "cfLockBooking" /\ StatusStill(w.cur, CHECKED_IN)
             -> Holder(rowLock, w.cur, WorkerTx(r))
        [] OTHER -> {}

WaitsFor(tx) ==
  IF tx \in Procs THEN ProcWaitsFor(tx)
  ELSE UNION {WorkerWaitsFor(r) : r \in {w \in Workers : WorkerTx(w) = tx}}

\* the sets of transactions each waiting for a member of the set
DeadlockedSets ==
  {S \in SUBSET Txns : S # {} /\ \A tx \in S : WaitsFor(tx) \cap S # {}}

\* the store's deadlock detector aborts a transaction of a waiting cycle; the
\* error is no 23505, createBooking rethrows it and the controller answers 500
DeadlockAbort(p) ==
  /\ \E S \in DeadlockedSets : p \in S
  /\ Rollback(p, Res(500, "storeError"))

(***************************************************************************)
(* The clock, observed at the instants next to the slot boundaries and to  *)
(* the ends of the grace windows: b - 1, b, b + 15, b + 16.                *)
(***************************************************************************)
Now0 == 959
MaxClock == Now0 + 1 + MaxClockSlots * SLOT_SIZE_MINUTES

Instants ==
  {t \in Now0..MaxClock :
     t % SLOT_SIZE_MINUTES \in {0, NO_SHOW_GRACE_MINUTES, NO_SHOW_GRACE_MINUTES + 1,
                                SLOT_SIZE_MINUTES - 1}}

Tick(instants) ==
  /\ \E t \in instants : /\ t > now
                         /\ \A t2 \in instants : t2 > now => t <= t2
                         /\ now' = t
  /\ UNCHANGED <<bookings, procs, facLock, unitLock, rowLock, recon, advLock>>

(***************************************************************************)
(* Requests the callers send                                               *)
(***************************************************************************)
Alice == [userName |-> "alice", userType |-> "individual", clubName |-> NoClub]
Bob == [userName |-> "bob", userType |-> "individual", clubName |-> NoClub]
Lead == [userName |-> "lead", userType |-> "club", clubName |-> "Roobooru"]

Callers == {Alice, Bob}
UserNames == {"alice", "bob"}

Req(f, u, s, e) == [facilityId |-> f, unitId |-> u, startsAt |-> s, endsAt |-> e]

\* the library (pooled), court 10, and the library with a unit id in the body,
\* all for 16:00-16:30
Requests == {Req(1, NULL, 960, 990), Req(2, 10, 960, 990)}
BookingIdChoices == 1..MaxBookings

Init ==
  /\ now = Now0
  /\ bookings = <<>>
  /\ procs = [p \in Procs |-> IdleProc]
  /\ facLock = [f \in Facilities |-> NoTx]
  /\ unitLock = [u \in Units |-> NoTx]
  /\ rowLock = [i \in 1..MaxRows |-> NoTx]
  /\ recon = [r \in Workers |-> IdleRecon]
  /\ advLock = [holder |-> NoConn, count |-> 0]

Next ==
  \/ Tick(Instants)
  \/ \E p \in Procs, c \in Callers, q \in Requests : StartCreate(p, c, q, MaxBookings)
  \/ \E p \in Procs : CreateLockFacility(p)
  \/ \E p \in Procs : CreateUserOverlap(p)
  \/ \E p \in Procs : CreateCapacity(p)
  \/ \E p \in Procs : CreateInsert(p)
  \/ \E p \in Procs : CreateCommit(p)
  \/ \E p \in Procs, b \in BookingIdChoices, n \in UserNames : StartCancel(p, b, n)
  \/ \E p \in Procs : CancelLockBooking(p)
  \/ \E p \in Procs : CancelCommit(p)
  \/ \E p \in Procs, b \in BookingIdChoices, n \in UserNames : StartCheckIn(p, b, n)
  \/ \E p \in Procs : CheckInRead(p)
  \/ \E p \in Procs : CheckInLockFacility(p)
  \/ \E p \in Procs : CheckInLockBooking(p)
  \/ \E p \in Procs : CheckInCommit(p)
  \/ \E p \in Procs, b \in BookingIdChoices, n \in UserNames : StartCheckOut(p, b, n)
  \/ \E p \in Procs : CheckOutRead(p)
  \/ \E p \in Procs : CheckOutLockFacility(p)
  \/ \E p \in Procs : CheckOutLockBooking(p)
  \/ \E p \in Procs : CheckOutCommit(p)
  \/ \E r \in OneCycle : ReconStart(r, 1)
  \/ \E r \in Workers : ReconTryLock(r)
  \/ \E r \in Workers : ReconNoShowSelect(r)
  \/ \E r \in Workers : ReconCompleteSelect(r)
  \/ \E r \in Workers : ReconLockFacility(r)
  \/ \E r \in Workers : ReconLockBooking(r)
  \/ \E r \in Workers : ReconCommit(r)
  \/ \E r \in Workers : ReconFinish(r)

Spec == Init /\ [][Next]_vars

(***************************************************************************)
(* Create and cancel requests alone, at a fixed instant: two request       *)
(* slots, the two facilities, two windows that overlap with different      *)
(* snapped starts (16:00-17:00, and 16:37-17:32 which snaps to             *)
(* 16:30-17:30).                                                           *)
(***************************************************************************)
CreateRequests ==
  {Req(1, NULL, 960, 1020), Req(2, 10, 960, 1020), Req(1, 10, 960, 1020),
   Req(2, 10, 997, 1052)}

NextCreate ==
  \/ \E p \in Procs, c \in Callers, q \in CreateRequests : StartCreate(p, c, q, MaxCreateRows)
  \/ \E p \in Procs : CreateLockFacility(p)
  \/ \E p \in Procs : CreateUserOverlap(p)
  \/ \E p \in Procs : CreateCapacity(p)
  \/ \E p \in Procs : CreateInsert(p)
  \/ \E p \in Procs : CreateForeignKey(p)
  \/ \E p \in Procs : DeadlockAbort(p)
  \/ \E p \in Procs : CreateCommit(p)
  \/ \E p \in Procs, b \in BookingIds : StartCancel(p, b, bookings[b].booked_by)
  \/ \E p \in Procs : CancelLockBooking(p)
  \/ \E p \in Procs : CancelCommit(p)

SpecCreate == Init /\ [][NextCreate]_vars

(***************************************************************************)
(* Two create requests, one per request slot, against the empty table: a   *)
(* court for 16:00-17:00 and for 16:37-17:32, the court for eight hours    *)
(* (a club's full-day request), the library for 16:00-17:00.  The clock    *)
(* may pass the 16:00 start between the two.                               *)
(***************************************************************************)
RaceCallers == {Alice, Bob, Lead}

RaceRequests ==
  {Req(2, 10, 960, 1020), Req(2, 10, 997, 1052),
   Req(2, 10, 960, 960 + FULL_DAY_MINUTES), Req(1, NULL, 960, 1020)}

RaceInstants == {t \in Instants : t <= Now0 + 1 + NO_SHOW_GRACE_MINUTES}

NextRace ==
  \/ Tick(RaceInstants)
  \/ \E p \in Procs, c \in RaceCallers, q \in RaceRequests :
       procs[p].pc = "idle" /\ StartCreate(p, c, q, MaxCreateRows)
  \/ \E p \in Procs : CreateLockFacility(p)
  \/ \E p \in Procs : CreateUserOverlap(p)
  \/ \E p \in Procs : CreateCapacity(p)
  \/ \E p \in Procs : CreateInsert(p)
  \/ \E p \in Procs : CreateCommit(p)

SpecRace == Init /\ [][NextRace]_vars

(***************************************************************************)
(* The reconciler over the pool's connections, with store errors, next to  *)
(* one caller who books court 10 for 16:00-16:30 and may cancel.  The cron *)
(* tick keeps firing, the clock advances, every statement that can run     *)
(* does, and a lock that is free again and again is obtained (the store    *)
(* queues lock requests); store errors and idle timeouts may or may not    *)
(* happen.                                                                 *)
(***************************************************************************)
CycleRequests == {Req(2, 10, 960, 990)}

CycleRequestStep ==
  \/ \E p \in Procs, q \in CycleRequests : StartCreate(p, Alice, q, MaxBookings)
  \/ \E p \in Procs, b \in BookingIdChoices : StartCancel(p, b, Alice.userName)

CycleProcStep ==
  \/ \E p \in Procs : CreateLockFacility(p)
  \/ \E p \in Procs : CreateUserOverlap(p)
  \/ \E p \in Procs : CreateCapacity(p)
  \/ \E p \in Procs : CreateInsert(p)
  \/ \E p \in Procs : CreateCommit(p)
  \/ \E p \in Procs : CancelLockBooking(p)
  \/ \E p \in Procs : CancelCommit(p)

CycleWorkerStep ==
  \/ \E r \in Workers : ReconTryLock(r)
  \/ \E r \in Workers : ReconNoShowSelect(r)
  \/ \E r \in Workers : ReconCompleteSelect(r)
  \/ \E r \in Workers : ReconLockFacility(r)
  \/ \E r \in Workers : ReconLockBooking(r)
  \/ \E r \in Workers : ReconCommit(r)
  \/ \E r \in Workers : ReconFinish(r)

NextCycles ==
  \/ Tick(Instants)
  \/ CycleRequestStep
  \/ CycleProcStep
  \/ \E r \in OneCycle, c \in Conns : ReconStart(r, c)
  \/ CycleWorkerStep
  \/ \E r \in Workers : ReconFail(r)
  \/ \E c \in Conns : ConnIdleTimeout(c)

SpecCycles ==
  /\ Init /\ [][NextCycles]_vars
  /\ WF_vars(Tick(Instants))
  /\ WF_vars(\E r \in OneCycle, c \in Conns : ReconStart(r, c))
  /\ SF_vars(CycleWorkerStep)
  /\ SF_vars(CycleProcStep)

(***************************************************************************)
(* The reconciler next to one caller who books court 10 for 16:00-16:30,   *)
(* checks in and may check out, one request at a time; the fairness is     *)
(* that of SpecCycles.                                                     *)
(***************************************************************************)
SessionSlots == {1}

SessionRequestStep ==
  \/ \E p \in SessionSlots, q \in CycleRequests : StartCreate(p, Alice, q, MaxBookings)
  \/ \E p \in SessionSlots, b \in BookingIdChoices : StartCheckIn(p, b, Alice.userName)
  \/ \E p \in SessionSlots, b \in BookingIdChoices : StartCheckOut(p, b, Alice.userName)

SessionProcStep ==
  \/ \E p \in Procs : CreateLockFacility(p)
  \/ \E p \in Procs : CreateUserOverlap(p)
  \/ \E p \in Procs : CreateCapacity(p)
  \/ \E p \in Procs : CreateInsert(p)
  \/ \E p \in Procs : CreateCommit(p)
  \/ \E p \in Procs : CheckInRead(p)
  \/ \E p \in Procs : CheckInLockFacility(p)
  \/ \E p \in Procs : CheckInLockBooking(p)
  \/ \E p \in Procs : CheckInCommit(p)
  \/ \E p \in Procs : CheckOutRead(p)
  \/ \E p \in Procs : CheckOutLockFacility(p)
  \/ \E p \in Procs : CheckOutLockBooking(p)
  \/ \E p \in Procs : CheckOutCommit(p)

NextSessions ==
  \/ Tick(Instants)
  \/ SessionRequestStep
  \/ SessionProcStep
  \/ \E r \in OneCycle, c \in Conns : ReconStart(r, c)
  \/ CycleWorkerStep
  \/ \E r \in Workers : ReconFail(r)
  \/ \E c \in Conns : ConnIdleTimeout(c)

SpecSessions ==
  /\ Init /\ [][NextSessions]_vars
  /\ WF_vars(Tick(Instants))
  /\ WF_vars(\E r \in OneCycle, c \in Conns : ReconStart(r, c))
  /\ SF_vars(CycleWorkerStep)
  /\ SF_vars(SessionProcStep)

(***************************************************************************)
(* Every operation on bookings: one caller who books court 10 for          *)
(* 16:00-16:30 and cancels, checks in or checks out, one request at a      *)
(* time, the reconciler on one connection, and the demo reset.             *)
(***************************************************************************)
NextReset ==
  \/ Tick(Instants)
  \/ SessionRequestStep
  \/ \E p \in SessionSlots, b \in BookingIdChoices : StartCancel(p, b, Alice.userName)
  \/ SessionProcStep
  \/ \E p \in Procs : CancelLockBooking(p)
  \/ \E p \in Procs : CancelCommit(p)
  \/ \E r \in OneCycle : ReconStart(r, 1)
  \/ CycleWorkerStep
  \/ seedDemoData

SpecReset == Init /\ [][NextReset]_vars

(***************************************************************************)
(* Two create requests, one per request slot, against the empty table at   *)
(* 15:59 of day 0, by a club lead and an individual: court 10 and the      *)
(* library for the whole of day 1 (08:00-16:00 and 07:00-16:00), for       *)
(* 10:00-11:00 of day 1, and court 10 for 23:00 of day 0 to 01:00 of       *)
(* day 1.                                                                  *)
(***************************************************************************)
FullDayCallers == {Alice, Lead}

FullDayRequests ==
  {Req(2, 10, DAY_MINUTES + 480, DAY_MINUTES + 960),
   Req(2, 10, DAY_MINUTES + 420, DAY_MINUTES + 960),
   Req(2, 10, DAY_MINUTES + 600, DAY_MINUTES + 660),
   Req(2, 10, 1380, DAY_MINUTES + 60),
   Req(1, NULL, DAY_MINUTES + 480, DAY_MINUTES + 960),
   Req(1, NULL, DAY_MINUTES + 600, DAY_MINUTES + 660)}

NextFullDay ==
  \/ \E p \in Procs, c \in FullDayCallers, q \in FullDayRequests :
       procs[p].pc = "idle" /\ StartCreate(p, c, q, MaxCreateRows)
  \/ \E p \in Procs : CreateLockFacility(p)
  \/ \E p \in Procs : CreateUserOverlap(p)
  \/ \E p \in Procs : CreateCapacity(p)
  \/ \E p \in Procs : CreateInsert(p)
  \/ \E p \in Procs : CreateCommit(p)

SpecFullDay == Init /\ [][NextFullDay]_vars

(***************************************************************************)
(* Durations: one create per request slot at 15:59, by an individual and a *)
(* club lead, on the cricket ground (60 to 180 minutes) for 30 and 60      *)
(* minutes and on court 10 (30 to 120 minutes) for 120 minutes, for 150    *)
(* minutes, and for 16:01-17:59, which snaps to 16:00-18:00.               *)
(***************************************************************************)
DurationRequests ==
  {Req(4, 40, 960, 990), Req(4, 40, 960, 1020), Req(2, 10, 960, 1080),
   Req(2, 10, 960, 1110), Req(2, 10, 961, 1079)}

NextDuration ==
  \/ \E p \in Procs, c \in FullDayCallers, q \in DurationRequests :
       procs[p].pc = "idle" /\ StartCreate(p, c, q, MaxCreateRows)
  \/ \E p \in Procs : CreateLockFacility(p)
  \/ \E p \in Procs : CreateUserOverlap(p)
  \/ \E p \in Procs : CreateCapacity(p)
  \/ \E p \in Procs : CreateInsert(p)
  \/ \E p \in Procs : CreateCommit(p)

SpecDuration == Init /\ [][NextDuration]_vars

(***************************************************************************)
(* The pooled tables (capacity TableCapacity): two callers whose requests  *)
(* are sent one after the other, for 16:00-16:30, 16:30-17:00 and          *)
(* 16:00-17:00, at 15:59.                                                  *)
(***************************************************************************)
PoolRequests ==
  {Req(3, NULL, 960, 990), Req(3, NULL, 990, 1020), Req(3, NULL, 960, 1020)}

NextPool ==
  \/ \E p \in SessionSlots, c \in Callers, q \in PoolRequests :
       StartCreate(p, c, q, MaxPoolRows)
  \/ \E p \in Procs : CreateLockFacility(p)
  \/ \E p \in Procs : CreateUserOverlap(p)
  \/ \E p \in Procs : CreateCapacity(p)
  \/ \E p \in Procs : CreateInsert(p)
  \/ \E p \in Procs : CreateCommit(p)

SpecPool == Init /\ [][NextPool]_vars

(***************************************************************************)
(* Two bookings of one caller, court 10 for 16:00-16:30 and court 11 for   *)
(* 16:30-17:00, under every transition: the caller's requests are sent one *)
(* after the other (create, cancel, check-in, check-out), the reconciler   *)
(* runs on one connection, the clock moves from 15:59 to 16:30.            *)
(***************************************************************************)
FrameRequests == {Req(2, 10, 960, 990), Req(2, 11, 990, 1020)}

NextFrame ==
  \/ Tick(Instants)
  \/ \E p \in SessionSlots, q \in FrameRequests : StartCreate(p, Alice, q, MaxCreateRows)
  \/ \E p \in SessionSlots, b \in BookingIds : StartCancel(p, b, Alice.userName)
  \/ \E p \in SessionSlots, b \in BookingIds : StartCheckIn(p, b, Alice.userName)
  \/ \E p \in SessionSlots, b \in BookingIds : StartCheckOut(p, b, Alice.userName)
  \/ SessionProcStep
  \/ \E p \in Procs : CancelLockBooking(p)
  \/ \E p \in Procs : CancelCommit(p)
  \/ \E r \in OneCycle : ReconStart(r, 1)
  \/ CycleWorkerStep

SpecFrame == Init /\ [][NextFrame]_vars

(***************************************************************************)
(* Occupancy over time: two callers, one create per request slot, for      *)
(* court 10 and court 11 for 16:00-16:30 and the library for 16:30-17:00,  *)
(* while the clock moves from 15:59 to 16:30; a booking may be cancelled   *)
(* by its owner.                                                           *)
(***************************************************************************)
OccupancyRequests ==
  {Req(2, 10, 960, 990), Req(2, 11, 960, 990), Req(1, NULL, 990, 1020)}

NextOccupancy ==
  \/ Tick(Instants)
  \/ \E p \in Procs, c \in Callers, q \in OccupancyRequests :
       procs[p].pc = "idle" /\ StartCreate(p, c, q, MaxCreateRows)
  \/ \E p \in Procs : CreateLockFacility(p)
  \/ \E p \in Procs : CreateUserOverlap(p)
  \/ \E p \in Procs : CreateCapacity(p)
  \/ \E p \in Procs : CreateInsert(p)
  \/ \E p \in Procs : CreateCommit(p)
  \/ \E p \in Procs, b \in BookingIds : StartCancel(p, b, bookings[b].booked_by)
  \/ \E p \in Procs : CancelLockBooking(p)
  \/ \E p \in Procs : CancelCommit(p)

SpecOccupancy == Init /\ [][NextOccupancy]_vars

(***************************************************************************)
(* A full-day claim next to time-based requests on another unit: at 15:59  *)
(* of day 0 a club lead and an individual ask, one create per request      *)
(* slot, for court 10 for day 1 08:00-17:00 and for day 1 20:00 to day 2   *)
(* 06:00, and for court 11 for 07:00-08:00 of day 1 and of day 2; a        *)
(* booking may be cancelled by its owner.                                  *)
(***************************************************************************)
DayBlockRequests ==
  {Req(2, 10, DAY_MINUTES + 480, DAY_MINUTES + 1020),
   Req(2, 10, DAY_MINUTES + 1200, 2 * DAY_MINUTES + 360),
   Req(2, 11, DAY_MINUTES + 420, DAY_MINUTES + 480),
   Req(2, 11, 2 * DAY_MINUTES + 420, 2 * DAY_MINUTES + 480)}

NextDayBlock ==
  \/ \E p \in Procs, c \in FullDayCallers, q \in DayBlockRequests :
       procs[p].pc = "idle" /\ StartCreate(p, c, q, MaxCreateRows)
  \/ \E p \in Procs : CreateLockFacility(p)
  \/ \E p \in Procs : CreateUserOverlap(p)
  \/ \E p \in Procs : CreateCapacity(p)
  \/ \E p \in Procs : CreateInsert(p)
  \/ \E p \in Procs : CreateCommit(p)
  \/ \E p \in Procs, b \in BookingIds : StartCancel(p, b, bookings[b].booked_by)
  \/ \E p \in Procs : CancelLockBooking(p)
  \/ \E p \in Procs : CancelCommit(p)

SpecDayBlock == Init /\ [][NextDayBlock]_vars

(***************************************************************************)
(* Two create requests, one per request slot, against the empty table:     *)
(* court 10, court 12 (out of service) and the auditorium hall for         *)
(* 16:00-17:00.                                                            *)
(***************************************************************************)
UnitRequests ==
  {Req(2, 10, 960, 1020), Req(2, 12, 960, 1020), Req(5, 50, 960, 1020)}

NextUnits ==
  \/ \E p \in Procs, c \in Callers, q \in UnitRequests :
       procs[p].pc = "idle" /\ StartCreate(p, c, q, MaxCreateRows)
  \/ \E p \in Procs : CreateLockFacility(p)
  \/ \E p \in Procs : CreateUserOverlap(p)
  \/ \E p \in Procs : CreateCapacity(p)
  \/ \E p \in Procs : CreateInsert(p)
  \/ \E p \in Procs : CreateCommit(p)

SpecUnits == Init /\ [][NextUnits]_vars

(***************************************************************************)
(* One caller who creates and cancels, over two request slots: the library *)
(* for 16:30-17:00 and court 10 for 16:00-17:00.                           *)
(***************************************************************************)
ReuseRequests == {Req(1, NULL, 990, 1020), Req(2, 10, 960, 1020)}

NextReuse ==
  \/ \E p \in Procs, q \in ReuseRequests : StartCreate(p, Alice, q, MaxCreateRows)
  \/ \E p \in Procs : CreateLockFacility(p)
  \/ \E p \in Procs : CreateUserOverlap(p)
  \/ \E p \in Procs : CreateCapacity(p)
  \/ \E p \in Procs : CreateInsert(p)
  \/ \E p \in Procs : CreateCommit(p)
  \/ \E p \in Procs, b \in BookingIds : StartCancel(p, b, bookings[b].booked_by)
  \/ \E p \in Procs : CancelLockBooking(p)
  \/ \E p \in Procs : CancelCommit(p)

SpecReuse == Init /\ [][NextReuse]_vars

(***************************************************************************)
(* One booking of court 10 from creation to check-out, one request at a    *)
(* time, with the clock observed every minute and requests whose instants  *)
(* are off the slot boundaries: 16:01-16:52 (snaps to 16:00-17:00),        *)
(* 16:14-16:43 (16:00-16:30), 16:15-16:45 (the ties: 16:30-17:00),         *)
(* 16:43-17:04 (16:30-17:00) and 16:02-16:10 (both ends snap to 16:00).    *)
(***************************************************************************)
SlotRequests ==
  {Req(2, 10, 961, 1012), Req(2, 10, 974, 1003), Req(2, 10, 975, 1005),
   Req(2, 10, 1003, 1024), Req(2, 10, 962, 970)}

Minutes == Now0..MaxClock

NextSlots ==
  \/ Tick(Minutes)
  \/ \E p \in SessionSlots, q \in SlotRequests : StartCreate(p, Alice, q, MaxBookings)
  \/ \E p \in Procs : CreateLockFacility(p)
  \/ \E p \in Procs : CreateUserOverlap(p)
  \/ \E p \in Procs : CreateCapacity(p)
  \/ \E p \in Procs : CreateInsert(p)
  \/ \E p \in Procs : CreateCommit(p)
  \/ \E p \in SessionSlots, b \in BookingIdChoices : StartCheckIn(p, b, Alice.userName)
  \/ \E p \in Procs : CheckInRead(p)
  \/ \E p \in Procs : CheckInLockFacility(p)
  \/ \E p \in Procs : CheckInLockBooking(p)
  \/ \E p \in Procs : CheckInCommit(p)
  \/ \E p \in SessionSlots, b \in BookingIdChoices : StartCheckOut(p, b, Alice.userName)
  \/ \E p \in Procs : CheckOutRead(p)
  \/ \E p \in Procs : CheckOutLockFacility(p)
  \/ \E p \in Procs : CheckOutLockBooking(p)
  \/ \E p \in Procs : CheckOutCommit(p)

SpecSlots == Init /\ [][NextSlots]_vars

(***************************************************************************)
(* The advance-booking window: one create per request slot while the clock *)
(* moves minute by minute from 15:59 to 16:30.  16:14-16:44 snaps to       *)
(* 16:00-16:30 and is in the past once the clock has passed 16:00; the     *)
(* same window seven days on snaps to a start that is inside the horizon   *)
(* from 16:00 on, while the instant the caller gave is inside it only from *)
(* 16:14 on; a full day six days on and a full day ten days on, by an      *)
(* individual and by a club.                                               *)
(***************************************************************************)
HorizonCallers == {Alice, Lead}

HorizonRequests ==
  {Req(2, 10, 974, 1004),
   Req(2, 10, 7 * DAY_MINUTES + 974, 7 * DAY_MINUTES + 1004),
   Req(2, 10, 6 * DAY_MINUTES + 480, 6 * DAY_MINUTES + 1020),
   Req(2, 10, 10 * DAY_MINUTES + 480, 10 * DAY_MINUTES + 1020)}

NextHorizon ==
  \/ Tick(Minutes)
  \/ \E p \in Procs, c \in HorizonCallers, q \in HorizonRequests :
       procs[p].pc = "idle" /\ StartCreate(p, c, q, MaxCreateRows)
  \/ \E p \in Procs : CreateLockFacility(p)
  \/ \E p \in Procs : CreateUserOverlap(p)
  \/ \E p \in Procs : CreateCapacity(p)
  \/ \E p \in Procs : CreateInsert(p)
  \/ \E p \in Procs : CreateCommit(p)

SpecHorizon == Init /\ [][NextHorizon]_vars

(***************************************************************************)
(* Two reconciler cycles that may run at once (two service instances, or   *)
(* a tick that fires while the previous cycle is still running), each on   *)
(* its own connection, with store errors, next to a caller who books court *)
(* 10 for 16:00-16:30 and never checks in.                                 *)
(***************************************************************************)
NextInstances ==
  \/ Tick(Instants)
  \/ \E p \in SessionSlots, q \in CycleRequests : StartCreate(p, Alice, q, MaxBookings)
  \/ \E p \in Procs : CreateLockFacility(p)
  \/ \E p \in Procs : CreateUserOverlap(p)
  \/ \E p \in Procs : CreateCapacity(p)
  \/ \E p \in Procs : CreateInsert(p)
  \/ \E p \in Procs : CreateCommit(p)
  \/ \E r \in Workers, c \in Conns : ReconStart(r, c)
  \/ CycleWorkerStep
  \/ \E r \in Workers : ReconFail(r)
  \/ \E c \in Conns : ConnIdleTimeout(c)

SpecInstances == Init /\ [][NextInstances]_vars

(***************************************************************************)
(* Properties of the committed table                                       *)
(***************************************************************************)
\* the instants worth looking at: every overlap of two windows contains the
\* start of one of them
RowStarts == {bookings[i].starts_at : i \in BookingIds}

ActiveAt(i, t) ==
  IsActive(bookings[i]) /\ bookings[i].starts_at <= t /\ t < bookings[i].ends_at

\* C1: for every unit and every instant, at most one booking carrying that
\* unit id is active (scheduled or checked_in) with starts_at <= t < ends_at
C1_UnitExclusive ==
  \A u \in Units, t \in RowStarts :
    Cardinality({i \in BookingIds : bookings[i].unit_id = u /\ ActiveAt(i, t)}) <= 1

\* C2: for every pooled facility and every instant, the active bookings of
\* the facility covering the instant number at most its total_capacity
C2_PooledCapacity ==
  \A f \in Facilities, t \in RowStarts :
    FacilityRow(f).is_pooled =>
      Cardinality({i \in BookingIds : bookings[i].facility_id = f /\ ActiveAt(i, t)})
        <= FacilityRow(f).total_capacity

\* the pool is full at some instant and a create has been turned away for it
C2_Witness ==
  /\ \E f \in Facilities, t \in RowStarts :
       /\ FacilityRow(f).is_pooled
       /\ Cardinality({i \in BookingIds : bookings[i].facility_id = f /\ ActiveAt(i, t)})
            = FacilityRow(f).total_capacity
  /\ \E p \in Procs : procs[p].op = "create" /\ procs[p].res.msg = "noSpace"

\* C3: no user holds two active bookings whose windows intersect
C3_NoSelfOverlap ==
  \A i, j \in BookingIds :
    (/\ i < j
     /\ bookings[i].booked_by = bookings[j].booked_by
     /\ IsActive(bookings[i]) /\ IsActive(bookings[j]))
    => ~(bookings[i].starts_at < bookings[j].ends_at
         /\ bookings[j].starts_at < bookings[i].ends_at)

\* C4: no two active bookings share an idempotency key, and an insert that
\* meets a committed active row with its key is answered 409 and leaves the
\* table as it was
C4_KeyUnique ==
  /\ [](\A i, j \in BookingIds :
          (i < j /\ IsActive(bookings[i]) /\ IsActive(bookings[j]))
          => bookings[i].idempotency_key # bookings[j].idempotency_key)
  /\ [][\A p \in Procs :
          (/\ procs[p].op = "create" /\ procs[p].pc = "insert"
           /\ procs'[p] # procs[p]
           /\ \E i \in BookingIds :
                /\ bookings[i].status \in {SCHEDULED, CHECKED_IN}
                /\ bookings[i].idempotency_key
                     = <<procs[p].userName, procs[p].startsAt * MILLIS_PER_MINUTE>>)
          => /\ procs'[p].pc = "done"
             /\ procs'[p].res.status = 409
             /\ bookings' = bookings]_vars

\* an insert has been refused by the unique index while the row holding the
\* key is still active
C4_Witness ==
  \E p \in Procs :
    /\ procs[p].op = "create" /\ procs[p].res.msg = "duplicate"
    /\ \E i \in BookingIds :
         /\ IsActive(bookings[i])
         /\ bookings[i].idempotency_key
              = <<procs[p].userName, procs[p].startsAt * MILLIS_PER_MINUTE>>

\* C8: no reachable state holds a non-empty set of transactions each of which
\* waits for a row lock or a unique-index entry held by a member of the set
C8_NoDeadlock ==
  ~ \E S \in SUBSET (Procs \cup {WorkerTx(r) : r \in Workers}) :
      /\ S # {}
      /\ \A tx \in S : WaitsFor(tx) \cap S # {}

\* C5: a row enters the table as scheduled, and every change of a row's
\* status is scheduled -> checked_in, checked_in -> completed or
\* scheduled -> released; completed and released rows keep their status
C5_Transitions ==
  [][/\ Len(bookings') >= Len(bookings)
     /\ \A i \in 1..Len(bookings') :
          IF i > Len(bookings)
          THEN bookings'[i].status = "scheduled"
          ELSE \/ bookings'[i].status = bookings[i].status
               \/ <<bookings[i].status, bookings'[i].status>>
                    \in {<<"scheduled", "checked_in">>, <<"checked_in", "completed">>,
                         <<"scheduled", "released">>}]_vars

\* the reconciler has completed a checked-in booking in its running cycle
C5_Witness ==
  \E i \in BookingIds, r \in Workers :
    bookings[i].status = "completed" /\ recon[r].completedCount > 0

\* C9: when check-in evaluates its guards for the owner of a scheduled
\* booking, it goes on to write checked_in (and answers 200) exactly if
\* starts_at <= now <= starts_at + 15; otherwise it answers 403 and the row
\* stays scheduled
C9_GraceWindow ==
  [][\A p \in Procs :
       (procs[p].op = "checkIn" /\ procs'[p] # procs[p]) =>
         LET id == procs[p].bookingId
         IN  /\ (/\ procs[p].pc = "lockBooking"
                 /\ bookings[id].booked_by = procs[p].userName
                 /\ bookings[id].status = "scheduled")
                => IF bookings[id].starts_at <= now /\ now <= bookings[id].starts_at + 15
                   THEN /\ procs'[p].pc = "commit"
                        /\ procs'[p].pending[3] = "checked_in"
                   ELSE /\ procs'[p].pc = "done"
                        /\ procs'[p].res.status = 403
                        /\ bookings' = bookings
             /\ procs[p].pc = "commit"
                => /\ procs'[p].res.status = 200
                   /\ bookings'[id].status = "checked_in"]_vars

\* one check-in was refused before the start, another by the owner went
\* through
C9_Witness ==
  \E p, q \in Procs :
    /\ procs[p].op = "checkIn" /\ procs[p].res.msg = "tooEarly"
    /\ procs[q].op = "checkIn" /\ procs[q].res.status = 200
    /\ bookings[procs[q].bookingId].status = "checked_in"

(***************************************************************************)
(* Properties of pairs of create requests                                  *)
(***************************************************************************)
\* the request of slot p would be accepted on an empty table at this instant
OtherwiseValid(p) ==
  /\ procs[p].facilityId \in Facilities
  /\ validateBookingRequest(FacilityRow(procs[p].facilityId), procs[p].startsAt,
                            procs[p].endsAt, procs[p].userType, now).ok
  /\ procs[p].userType = "club" => procs[p].clubName \in VALID_CLUBS

\* both slots have answered a create for the same unit of a unit-based
\* facility, by different users, over intersecting snapped windows
UnitRace(p, q) ==
  /\ p # q
  /\ procs[p].op = "create" /\ procs[p].pc = "done"
  /\ procs[q].op = "create" /\ procs[q].pc = "done"
  /\ OtherwiseValid(p) /\ OtherwiseValid(q)
  /\ procs[p].facilityId = procs[q].facilityId
  /\ ~FacilityRow(procs[p].facilityId).is_pooled
  /\ procs[p].unitId = procs[q].unitId
  /\ procs[p].unitId \in Units /\ UnitFacility(procs[p].unitId) = procs[p].facilityId
  /\ procs[p].userName # procs[q].userName
  /\ procs[p].startsAt < procs[q].endsAt /\ procs[q].startsAt < procs[p].endsAt

\* w was answered 201 and l was answered 409 with conflictDetails naming w's
\* bookedBy, startsAt and endsAt
WonAgainst(w, l) ==
  /\ procs[w].res.status = 201
  /\ procs[l].res.status = 409
  /\ procs[l].res.details # <<>>
  /\ procs[l].res.details[1] = procs[w].userName
  /\ procs[l].res.details[4] = procs[w].startsAt
  /\ procs[l].res.details[5] = procs[w].endsAt

TimeBased(p) == procs[p].endsAt - procs[p].startsAt < FULL_DAY_MINUTES

C7_DuplicateMessage ==
  \A p, q \in Procs :
    (/\ p # q
     /\ procs[p].op = "create" /\ procs[p].pc = "done"
     /\ procs[q].op = "create" /\ procs[q].pc = "done"
     /\ procs[p].facilityId = procs[q].facilityId
     /\ procs[p].unitId = procs[q].unitId
     /\ procs[p].userName = procs[q].userName
     /\ procs[p].startsAt = procs[q].startsAt
     /\ procs[p].endsAt = procs[q].endsAt
     /\ procs[p].res.status = 201
     /\ bookings[procs[p].bookingId].status \in {"scheduled", "checked_in"})
    => /\ procs[q].res.status = 409
       /\ procs[q].res.msg = "duplicate"

(***************************************************************************)
(* Properties of the reconciler                                            *)
(***************************************************************************)
\* C10: with cron ticks recurring, a booking that is scheduled at an instant
\* later than starts_at + 15 is released in the end (by the reconciler or by
\* its owner's cancel), store errors in earlier cycles notwithstanding
C10_EventuallyReleased ==
  \A i \in 1..MaxRows :
    [](( /\ i \in BookingIds
         /\ bookings[i].status = "scheduled"
         /\ now > bookings[i].starts_at + 15)
       => <>(i \in BookingIds /\ bookings[i].status = "released"))

\* C11: with cron ticks recurring, a booking that is checked_in at an instant
\* at or after its ends_at is completed in the end (by the reconciler or by
\* its owner's check-out)
C11_EventuallyCompleted ==
  \A i \in 1..MaxRows :
    [](( /\ i \in BookingIds
         /\ bookings[i].status = "checked_in"
         /\ now >= bookings[i].ends_at)
       => <>(i \in BookingIds /\ bookings[i].status = "completed"))

\* C12: a cycle that holds the advisory lock (it is past its lock attempt)
\* and ends, on whatever path, has given back its acquisition: the lock is
\* no longer with the cycle's session, or that session holds it one time less
C12_LockReleased ==
  [][\A r \in Workers :
       (recon[r].pc \notin {"idle", "tryLock"} /\ recon'[r].pc = "idle")
       => \/ advLock'.holder # recon[r].conn
          \/ advLock'.count < advLock.count]_vars

\* C13: at most one reconciler cycle at a time is past a successful lock
\* attempt and not yet ended; and a cycle whose lock attempt finds the lock
\* with another session ends at once, leaving every booking as it was and
\* broadcasting nothing
C13_OneCycleAtATime ==
  /\ [](Cardinality({r \in Workers : recon[r].pc \notin {"idle", "tryLock"}}) <= 1)
  /\ [][\A r \in Workers :
          (/\ recon[r].pc = "tryLock"
           /\ advLock.holder \notin {NoConn, recon[r].conn}
           /\ recon'[r] # recon[r])
          => /\ recon'[r].pc = "idle"
             /\ recon'[r].last # "broadcast"
             /\ recon'[r].releasedCount = 0 /\ recon'[r].completedCount = 0
             /\ bookings' = bookings]_vars

\* one cycle is at work on a stale booking under the lock while the other
\* cycle has been turned away
C13_Witness ==
  \E r1, r2 \in Workers :
    /\ r1 # r2
    /\ recon[r1].pc \in {"nsLockFacility", "nsLockBooking", "nsCommit"}
    /\ recon[r2].pc = "idle" /\ recon[r2].last = "skipped"
    /\ advLock.holder = recon[r1].conn

(***************************************************************************)
(* Properties of the instants of a booking                                 *)
(***************************************************************************)
\* C14: every booking's starts_at and ends_at is a multiple of 30 minutes
\* past the hour, whatever instants the request gave and after check-out has
\* rewritten ends_at
C14_SlotAligned ==
  \A i \in BookingIds :
    /\ bookings[i].starts_at % 60 \in {0, 30}
    /\ bookings[i].ends_at % 60 \in {0, 30}

\* a booking made from instants off the boundaries has been checked out in
\* the middle of a slot, and its end is the end of that slot
C14_Witness ==
  \E p \in Procs :
    /\ procs[p].op = "checkOut" /\ procs[p].res.status = 200
    /\ now % 30 \notin {0, 29}
    /\ bookings[procs[p].bookingId].ends_at > now
    /\ bookings[procs[p].bookingId].ends_at - now < 30

\* C18: a check-out whose guards pass at instant now writes status completed
\* and ends_at = the smallest multiple of 30 minutes strictly after now, and
\* its commit answers 200 and leaves exactly that in the row
C18_CheckOutEnd ==
  [][\A p \in Procs :
       (procs[p].op = "checkOut" /\ procs'[p] # procs[p]) =>
         /\ (procs[p].pc = "lockBooking" /\ procs'[p].pc = "commit")
            => /\ procs'[p].pending[3] = "completed"
               /\ procs'[p].pending[4] % 30 = 0
               /\ procs'[p].pending[4] > now
               /\ procs'[p].pending[4] - 30 <= now
         /\ procs[p].pc = "commit"
            => /\ procs'[p].res.status = 200
               /\ bookings'[procs[p].bookingId].status = "completed"
               /\ bookings'[procs[p].bookingId].ends_at = procs[p].pending[4]]_vars

\* a check-out made exactly on a slot boundary has moved the end to the next
\* boundary
C18_Witness ==
  \E p \in Procs :
    /\ procs[p].op = "checkOut" /\ procs[p].res.status = 200
    /\ now % 30 = 0
    /\ bookings[procs[p].bookingId].status = "completed"
    /\ bookings[procs[p].bookingId].ends_at = now + 30

\* C19: every booking ends after it starts, check-out's rewritten end
\* included
C19_EndAfterStart ==
  \A i \in BookingIds : bookings[i].ends_at > bookings[i].starts_at

\* a booking was checked out in the minute of its start, which cut its end
\* to the end of its first slot
C19_Witness ==
  \E p \in Procs :
    /\ procs[p].op = "checkOut" /\ procs[p].res.status = 200
    /\ now = bookings[procs[p].bookingId].starts_at
    /\ bookings[procs[p].bookingId].ends_at = bookings[procs[p].bookingId].starts_at + 30

(***************************************************************************)
(* Properties of full-day bookings                                         *)
(***************************************************************************)
\* a non-club create over eight hours or more that reaches its validation
FullDayByNonClub(p) ==
  /\ procs[p].op = "create" /\ procs[p].pc = "lockFacility"
  /\ procs[p].userType # "club"
  /\ procs[p].endsAt - procs[p].startsAt >= 8 * 60

\* C15 as stated: every full_day booking belongs to a club caller, and a
\* create of eight hours or more by a non-club caller is answered 403
\* Forbidden and leaves the table as it was
C15_FullDayForbidden ==
  /\ [](\A i \in BookingIds :
          bookings[i].booking_type = "full_day" => bookings[i].user_type = "club")
  /\ [][\A p \in Procs :
          (FullDayByNonClub(p) /\ procs'[p] # procs[p])
          => /\ procs'[p].pc = "done"
             /\ procs'[p].res.status = 403
             /\ bookings' = bookings]_vars

\* C15 amended: the same, with the answer the order of the validation rules
\* gives: 400 when the snapped start is in the past, 403 otherwise
C15_FullDayRefused ==
  /\ [](\A i \in BookingIds :
          bookings[i].booking_type = "full_day" => bookings[i].user_type = "club")
  /\ [][\A p \in Procs :
          (FullDayByNonClub(p) /\ procs[p].facilityId \in Facilities /\ procs'[p] # procs[p])
          => /\ procs'[p].pc = "done"
             /\ procs'[p].res.status = IF procs[p].startsAt < now THEN 400 ELSE 403
             /\ bookings' = bookings]_vars

\* a club holds a full-day booking and an individual's eight-hour request
\* was refused as reserved for clubs
C15_Witness ==
  /\ \E i \in BookingIds :
       bookings[i].booking_type = "full_day" /\ bookings[i].user_type = "club"
  /\ \E p \in Procs :
       /\ procs[p].op = "create" /\ procs[p].userType = "individual"
       /\ procs[p].endsAt - procs[p].startsAt >= 8 * 60
       /\ procs[p].res.status = 403 /\ procs[p].res.msg = "fullDayClubOnly"

\* C16: when an active full_day booking exists on a unit (or on a pooled
\* facility), no other active booking on that unit (that facility) has a
\* window that intersects the civil date of the full_day booking
C16_FullDayExclusive ==
  \A i, j \in BookingIds :
    (/\ i # j
     /\ bookings[i].booking_type = "full_day"
     /\ bookings[i].status \in {"scheduled", "checked_in"}
     /\ bookings[j].status \in {"scheduled", "checked_in"}
     /\ IF FacilityRow(bookings[i].facility_id).is_pooled
        THEN bookings[j].facility_id = bookings[i].facility_id
        ELSE bookings[j].unit_id = bookings[i].unit_id)
    => LET midnight == bookings[i].starts_at - (bookings[i].starts_at % (24 * 60))
       IN  ~(bookings[j].starts_at < midnight + 24 * 60 /\ bookings[j].ends_at > midnight)

(***************************************************************************)
(* Properties of create followed by cancel                                 *)
(***************************************************************************)
\* C17: when the owner's cancel of a created booking commits, the booking
\* is released and no active booking of that user covers its window; and an
\* insert whose key is carried by released or completed rows only is not
\* refused as a duplicate
C17_CancelFreesWindow ==
  [][\A p \in Procs :
       /\ (procs[p].op = "cancel" /\ procs[p].pc = "commit" /\ procs'[p].pc = "done")
          => LET id == procs[p].bookingId
             IN  /\ bookings'[id].status = "released"
                 /\ ~ \E j \in 1..Len(bookings') :
                        /\ bookings'[j].booked_by = bookings'[id].booked_by
                        /\ bookings'[j].status \in {"scheduled", "checked_in"}
                        /\ bookings'[j].starts_at <= bookings'[id].starts_at
                        /\ bookings'[j].ends_at >= bookings'[id].ends_at
       /\ (/\ procs[p].op = "create" /\ procs[p].pc = "insert"
           /\ procs'[p] # procs[p]
           /\ ~ \E i \in BookingIds :
                  /\ bookings[i].status \in {"scheduled", "checked_in"}
                  /\ bookings[i].idempotency_key
                       = <<procs[p].userName, procs[p].startsAt * MILLIS_PER_MINUTE>>)
          => procs'[p].res.msg # "duplicate"]_vars

\* C20: a booking's unit_id is null exactly if its facility is pooled
C20_UnitIdIffUnitBased ==
  \A i \in BookingIds :
    (bookings[i].unit_id = NULL) <=> FacilityRow(bookings[i].facility_id).is_pooled

(***************************************************************************)
(* Properties of units and facilities                                      *)
(***************************************************************************)
\* C21: no booking is on a unit that is not operational: every booking with
\* a unit id names a unit the unit listing of its facility shows
C21_OperationalUnitsOnly ==
  \A i \in BookingIds :
    bookings[i].unit_id # NULL =>
      bookings[i].unit_id \in getFacilityUnits(bookings[i].facility_id)

\* C22: a cancel changes a scheduled booking to released only before the
\* booking's start: the step in which a cancel passes its guards and writes
\* released is taken at an instant earlier than starts_at
C22_CancelBeforeStartOnly ==
  [][\A p \in Procs :
       (/\ procs[p].op = "cancel"
        /\ procs[p].pc = "lockBooking"
        /\ procs'[p].pc = "commit")
       => now < bookings[procs[p].bookingId].starts_at]_vars

(***************************************************************************)
(* The advance-booking window                                              *)
(***************************************************************************)
\* the club horizon README states, in days
ClubHorizonDaysStated == 30

\* the step in which create request p is validated
Validated(p) ==
  /\ procs[p].op = "create"
  /\ procs[p].pc = "lockFacility"
  /\ procs'[p].pc # "lockFacility"

\* C23: a full-day create by a club whose snapped start is not in the past
\* and at most 30 days after now is not refused by the advance-booking rule
C23_ClubHorizon ==
  [][\A p \in Procs :
       (/\ Validated(p)
        /\ procs[p].userType = "club"
        /\ procs[p].endsAt - procs[p].startsAt >= FULL_DAY_MINUTES
        /\ procs[p].startsAt >= now
        /\ procs[p].startsAt <= now + ClubHorizonDaysStated * DAY_MINUTES)
       => procs'[p].res.msg # "horizon"]_vars

\* C24: Event Space facilities are club-only: no booking on an Event Space
\* facility has user type individual, and the asset listing of a caller who
\* is not a club leaves the Event Space facilities out
C24_EventSpaceClubOnly ==
  /\ \A i \in BookingIds :
       FacilityRow(bookings[i].facility_id).category = "Event Space"
         => bookings[i].user_type # "individual"
  /\ \A f \in getAllAssets("individual") : FacilityRow(f).category # "Event Space"

Responds(p) == procs[p].pc # "done" /\ procs'[p].pc = "done"

Succeeded(p) == procs'[p].res.status \in {200, 201}

HoldsNothing(p) ==
  /\ \A f \in Facilities : facLock'[f] # p
  /\ \A u \in Units : unitLock'[u] # p
  /\ \A i \in 1..MaxRows : rowLock'[i] # p
  /\ procs'[p].pending = NoPending

C27_FiredAfterCommit ==
  /\ [](\A p \in Procs :
          procs[p].fired <=> (procs[p].pc = "done" /\ procs[p].res.status \in {200, 201}))
  /\ [][\A p \in Procs :
          (~procs[p].fired /\ procs'[p].fired)
          => /\ procs[p].pending # NoPending
             /\ bookings' # bookings
             /\ HoldsNothing(p)]_vars

\* a create has committed and broadcast, another request was refused with
\* 403 and has not
C27_Witness ==
  \E p, q \in Procs :
    /\ procs[p].pc = "done" /\ procs[p].fired /\ procs[p].op = "create"
    /\ procs[q].pc = "done" /\ ~procs[q].fired /\ procs[q].res.status = 403

(***************************************************************************)
(* Error classification of the transitions                                 *)
(***************************************************************************)
\* the status a transition starts from
SourceStatus(op) == IF op = "checkOut" THEN CHECKED_IN ELSE SCHEDULED

\* C28: when a check-in, check-out or cancel answers, an id with no row
\* gives 404; a caller who is not booked_by gives 403, whatever the status
\* and the time; the owner on a row that is not in the source status gives
\* 400; and in the three cases no row changes
C28_ErrorClasses ==
  [][\A p \in Procs :
       (Responds(p) /\ procs[p].op \in {"checkIn", "checkOut", "cancel"})
       => LET id == procs[p].bookingId
          IN  IF id \notin BookingIds
              THEN procs'[p].res.status = 404 /\ bookings' = bookings
              ELSE IF bookings[id].booked_by # procs[p].userName
              THEN procs'[p].res.status = 403 /\ bookings' = bookings
              ELSE IF bookings[id].status # SourceStatus(procs[p].op)
              THEN procs'[p].res.status = 400 /\ bookings' = bookings
              ELSE TRUE]_vars

\* a caller who is not the owner was refused with 403 on a booking that is
\* no longer scheduled
C28_Witness ==
  \E p \in Procs :
    /\ procs[p].op = "cancel" /\ procs[p].pc = "done"
    /\ procs[p].res.status = 403
    /\ procs[p].bookingId \in BookingIds
    /\ bookings[procs[p].bookingId].booked_by # procs[p].userName
    /\ bookings[procs[p].bookingId].status = RELEASED

(***************************************************************************)
(* The window an individual may book                                       *)
(***************************************************************************)
\* C29: when the create request of an individual passes validation, its
\* snapped start is not before now and at most 7 days after now, at that
\* instant
C29_StartInsideHorizon ==
  [][\A p \in Procs :
       (/\ Validated(p)
        /\ procs[p].userType = "individual"
        /\ procs'[p].pc # "done")
       => /\ now <= procs[p].startsAt
          /\ procs[p].startsAt <= now + MAX_BOOKING_HORIZON_DAYS * DAY_MINUTES]_vars

\* at 16:00 an individual's request for 16:14 seven days on has passed
\* validation: the instant given is past the horizon, the snapped start
\* (16:00 seven days on) is on it
C29_Witness ==
  \E p \in Procs :
    /\ procs[p].op = "create" /\ procs[p].pc = "userOverlap"
    /\ procs[p].userType = "individual"
    /\ now = 960
    /\ procs[p].startsAt = now + MAX_BOOKING_HORIZON_DAYS * DAY_MINUTES

(***************************************************************************)
(* The reconciler's updates                                                *)
(***************************************************************************)
\* C30: the reconciler writes released only on a row it has locked that is
\* scheduled with now > starts_at + 15 min, and completed only on a row it
\* has locked that is checked_in with now >= ends_at; a candidate whose
\* status has changed since the candidate select is skipped: no row changes
\* and neither count moves
C30_ReconUpdates ==
  [][\A r \in Workers :
       LET id == recon[r].cur
       IN  /\ (recon[r].pc = "nsCommit" /\ recon'[r] # recon[r])
                => /\ rowLock[id] = WorkerTx(r)
                   /\ bookings[id].status = SCHEDULED
                   /\ now > bookings[id].starts_at + NO_SHOW_GRACE_MINUTES
                   /\ bookings'[id].status = RELEASED
           /\ (recon[r].pc = "cfCommit" /\ recon'[r] # recon[r])
                => /\ rowLock[id] = WorkerTx(r)
                   /\ bookings[id].status = CHECKED_IN
                   /\ now >= bookings[id].ends_at
                   /\ bookings'[id].status = COMPLETED
           /\ (recon'[r] # recon[r] /\ bookings' # bookings)
                => recon[r].pc \in {"nsCommit", "cfCommit"}
           /\ (/\ recon[r].pc \in {"nsLockBooking", "cfLockBooking"}
               /\ recon'[r] # recon[r]
               /\ bookings[id].status #
                    (IF recon[r].pc = "nsLockBooking" THEN SCHEDULED ELSE CHECKED_IN))
                => /\ bookings' = bookings
                   /\ recon'[r].pc \notin {"nsCommit", "cfCommit"}
                   /\ recon'[r].releasedCount = recon[r].releasedCount
                   /\ recon'[r].completedCount = recon[r].completedCount]_vars

\* the reconciler holds the facility lock for a no-show candidate that its
\* owner has cancelled since the candidate select
C30_Witness ==
  \E r \in Workers, p \in Procs :
    /\ recon[r].pc = "nsLockBooking"
    /\ bookings[recon[r].cur].status = RELEASED
    /\ procs[p].op = "cancel" /\ procs[p].pc = "done" /\ procs[p].res.status = 200

(***************************************************************************)
(* Lock order of the transitions                                           *)
(***************************************************************************)
\* C31: a check-in, check-out or cancel writes its update only while its
\* transaction holds the row lock of the booking's facility and the row
\* lock of the booking
C31_FacilityLockedFirst ==
  [][\A p \in Procs :
       (/\ procs[p].op \in {"checkIn", "checkOut", "cancel"}
        /\ procs[p].pc = "lockBooking"
        /\ procs'[p].pc = "commit")
       => /\ facLock[bookings[procs[p].bookingId].facility_id] = p
          /\ rowLock'[procs[p].bookingId] = p]_vars

(***************************************************************************)
(* The reconciler's broadcast                                              *)
(***************************************************************************)
\* the step in which a cycle of worker r that holds the advisory lock ends
CycleEnds(r) ==
  /\ recon[r].pc \notin {"idle", "tryLock"}
  /\ recon'[r].pc = "idle"

\* the just-started query of the cycle ran and returned a row
FoundJustStarted(r) ==
  /\ recon[r].pc = "justStarted"
  /\ recon'[r].last # "failed"
  /\ \E i \in BookingIds : /\ bookings[i].status = SCHEDULED
                            /\ bookings[i].starts_at <= now
                            /\ bookings[i].starts_at > now - 1

\* C32: a cycle that acquired the lock ends with a broadcast exactly if it
\* released a booking, completed a booking or found a just-started one,
\* whether or not one of its statements failed
C32_CycleBroadcast ==
  [][\A r \in Workers :
       CycleEnds(r)
       => (recon'[r].last = "broadcast"
            <=> \/ recon[r].releasedCount > 0
                \/ recon[r].completedCount > 0
                \/ FoundJustStarted(r))]_vars

(***************************************************************************)
(* The full-day pre-check of time-based requests                           *)
(***************************************************************************)
\* the active full-day bookings of facility f that intersect the civil date
\* of instant t
FullDayOnDate(f, t) ==
  {i \in BookingIds : /\ bookings[i].facility_id = f
                      /\ bookings[i].booking_type = "full_day"
                      /\ bookings[i].status \in {SCHEDULED, CHECKED_IN}
                      /\ bookings[i].starts_at < startOfDayOf(t) + DAY_MINUTES
                      /\ bookings[i].ends_at > startOfDayOf(t)}

\* the request in slot p passes validateBookingRequest as time_based now
ValidTimeBased(p) ==
  LET v == validateBookingRequest(FacilityRow(procs[p].facilityId), procs[p].startsAt,
                                  procs[p].endsAt, procs[p].userType, now)
  IN  v.ok /\ v.bookingType = "time_based"

\* C33: a valid time-based create is refused by the full-day pre-check
\* exactly if an active full-day booking of the facility, on whatever unit,
\* intersects the civil date of the snapped start
C33_FullDayPreCheck ==
  [][\A p \in Procs :
       (Validated(p) /\ procs[p].facilityId \in Facilities /\ ValidTimeBased(p))
       => (procs'[p].res.msg = "facilityReservedAllDay"
            <=> FullDayOnDate(procs[p].facilityId, procs[p].startsAt) # {})]_vars

\* a time-based create on court 11 was refused with 409 while the only
\* booking is a full-day claim on court 10 for that date
C33_Witness ==
  \E p \in Procs :
    /\ procs[p].op = "create" /\ procs[p].pc = "done"
    /\ procs[p].res.msg = "facilityReservedAllDay"
    /\ procs[p].unitId = 11
    /\ \A i \in BookingIds : bookings[i].unit_id = 10 /\ bookings[i].booking_type = "full_day"
    /\ BookingIds # {}

(***************************************************************************)
(* Live occupancy                                                          *)
(***************************************************************************)
\* the active bookings of facility f whose window holds the current instant
OccupantsNow(f) ==
  {i \in BookingIds : /\ bookings[i].facility_id = f
                      /\ bookings[i].status \in {SCHEDULED, CHECKED_IN}
                      /\ bookings[i].starts_at <= now
                      /\ now < bookings[i].ends_at}

\* C34: the listing reports, for each facility, the number of active
\* bookings (pooled) or of units with an active booking (unit-based) whose
\* window holds now, and the capacity left, never below 0; a booking that
\* starts later is not among the occupants, one that starts now is
C34_LiveOccupancy ==
  \A f \in Facilities :
    LET usage == IF FacilityRow(f).is_pooled
                 THEN Cardinality(OccupantsNow(f))
                 ELSE Cardinality({u \in Units : \E i \in OccupantsNow(f) :
                                                  bookings[i].unit_id = u})
        left == FacilityRow(f).total_capacity - usage
    IN  /\ current_usage(f, now) = usage
        /\ available_capacity(f, now) = (IF left > 0 THEN left ELSE 0)
        /\ \A i \in BookingIds :
             (bookings[i].facility_id = f /\ bookings[i].status = SCHEDULED)
             => /\ bookings[i].starts_at > now => i \notin OccupantsNow(f)
                /\ bookings[i].starts_at = now
                     => i \in OccupantsNow(f) /\ current_usage(f, now) >= 1

\* at 16:00 sharp two courts are booked from 16:00 and the listing shows
\* two of three in use
C34_Witness ==
  /\ now = 960
  /\ Len(bookings) = 2
  /\ \A i \in BookingIds : bookings[i].starts_at = now /\ bookings[i].status = SCHEDULED
  /\ current_usage(2, now) = 2
  /\ available_capacity(2, now) = 1

(***************************************************************************)
(* Duration of time-based bookings                                         *)
(***************************************************************************)
\* the snapped duration of the request in slot p
SnappedDuration(p) == procs[p].endsAt - procs[p].startsAt

\* C35: a time-based booking has, when it is inserted, a duration between
\* its facility's min_duration_minutes and max_duration_minutes, ends
\* included; a request below the full-day length whose snapped duration is
\* outside that range is refused and inserts nothing
C35_DurationInRange ==
  [][/\ Len(bookings') > Len(bookings)
        => LET b == bookings'[Len(bookings')]
               f == FacilityRow(b.facility_id)
           IN  b.booking_type = "time_based"
               => /\ b.ends_at - b.starts_at >= f.min_duration_minutes
                  /\ b.ends_at - b.starts_at <= f.max_duration_minutes
     /\ \A p \in Procs :
          (/\ Responds(p) /\ procs[p].op = "create"
           /\ procs[p].facilityId \in Facilities
           /\ SnappedDuration(p) < FULL_DAY_MINUTES
           /\ \/ SnappedDuration(p) < FacilityRow(procs[p].facilityId).min_duration_minutes
              \/ SnappedDuration(p) > FacilityRow(procs[p].facilityId).max_duration_minutes)
          => ~Succeeded(p) /\ bookings' = bookings]_vars

\* court 10 is booked for exactly its maximum of 120 minutes next to a
\* request for 30 minutes on the cricket ground refused as too short
C35_Witness ==
  /\ \E i \in BookingIds : /\ bookings[i].facility_id = 2
                            /\ bookings[i].ends_at - bookings[i].starts_at = 120
  /\ \E p \in Procs : /\ procs[p].pc = "done" /\ procs[p].res.msg = "tooShort"

(***************************************************************************)
(* Operating hours                                                         *)
(***************************************************************************)
\* C36: every time-based booking starts and ends on one civil day, with
\* its start not before open_time and its end not after close_time
C36_InsideOpeningHours ==
  \A i \in BookingIds :
    bookings[i].booking_type = "time_based"
    => LET f == FacilityRow(bookings[i].facility_id)
       IN  /\ startOfDayOf(bookings[i].starts_at) = startOfDayOf(bookings[i].ends_at)
           /\ f.open_time <= timeOfDay(bookings[i].starts_at)
           /\ timeOfDay(bookings[i].ends_at) <= f.close_time

CoveringAt(f, t) ==
  {i \in BookingIds : /\ bookings[i].facility_id = f
                      /\ bookings[i].status \in {SCHEDULED, CHECKED_IN}
                      /\ bookings[i].starts_at <= t
                      /\ t < bookings[i].ends_at}

C39_FullDayOneDate ==
  \A i \in BookingIds :
    bookings[i].booking_type = "full_day"
    => bookings[i].ends_at <= startOfDayOf(bookings[i].starts_at) + DAY_MINUTES

(***************************************************************************)
(* What a transition leaves alone                                          *)
(***************************************************************************)
\* C40: a step of cancel, check-in, check-out or the reconciler that
\* changes the table changes the status of exactly one booking, and its
\* ends_at only if the step is a check-out of that booking; every other
\* column of the booking and every other booking stay as they were
C40_Frame ==
  [][(Len(bookings') = Len(bookings) /\ bookings' # bookings)
     => \E i \in BookingIds :
          /\ \A j \in BookingIds \ {i} : bookings'[j] = bookings[j]
          /\ bookings'[i].status # bookings[i].status
          /\ bookings'[i] = [bookings[i] EXCEPT !.status = bookings'[i].status,
                                                !.ends_at = bookings'[i].ends_at]
          /\ bookings'[i].ends_at # bookings[i].ends_at
               => \E p \in Procs : /\ procs[p].op = "checkOut"
                                    /\ procs[p].bookingId = i
                                    /\ Responds(p)]_vars

\* of two bookings the first has been checked out at 16:00, which moved
\* its end, and the second is as it was inserted
C40_Witness ==
  /\ Len(bookings) = 2
  /\ bookings[1].status = COMPLETED /\ bookings[1].ends_at # 990
  /\ bookings[1].starts_at = 960 /\ bookings[1].unit_id = 10
  /\ bookings[2].status = SCHEDULED /\ bookings[2].starts_at = 990
  /\ \E p \in Procs : procs[p].op = "checkOut" /\ procs[p].pc = "done"
                       /\ procs[p].res.status = 200
====
